---------------------------- MODULE Spec2Model ----------------------------
(***************************************************************************)
(* A model of news_poster.py: the dedup store (posted_links.txt and        *)
(* posted_content_hashes.txt), the publication gate (last_post_time,       *)
(* can_post_now, post_tweet), the candidate selection of                   *)
(* post_dynamic_update and the orchestration of run_dynamic_job.           *)
(*                                                                         *)
(* Text is a sequence of one-character strings.  Time is an integer count  *)
(* of 30-second units (the shortest sleep of post_tweet).                  *)
(***************************************************************************)
EXTENDS Integers, Sequences, FiniteSets, TLC

(***************************************************************************)
(* Bounds of the model.                                                    *)
(***************************************************************************)
\* longest URL / title drawn as an input of the dedup-store specification
MaxStrLen == 2
\* number of record operations in one behaviour of the dedup-store specification
MaxRecords == 2

(***************************************************************************)
(* Python string operations used by the dedup store.                       *)
(***************************************************************************)
NL == "\n"

\* str.lower() on one character
LowerChar(c) ==
    CASE c = "A" -> "a"
      [] c = "B" -> "b"
      [] c = "C" -> "c"
      [] c = "D" -> "d"
      [] c = "E" -> "e"
      [] c = "F" -> "f"
      [] c = "G" -> "g"
      [] c = "H" -> "h"
      [] c = "I" -> "i"
      [] c = "J" -> "j"
      [] c = "K" -> "k"
      [] c = "L" -> "l"
      [] c = "M" -> "m"
      [] c = "N" -> "n"
      [] c = "O" -> "o"
      [] c = "P" -> "p"
      [] c = "Q" -> "q"
      [] c = "R" -> "r"
      [] c = "S" -> "s"
      [] c = "T" -> "t"
      [] c = "U" -> "u"
      [] c = "V" -> "v"
      [] c = "W" -> "w"
      [] c = "X" -> "x"
      [] c = "Y" -> "y"
      [] c = "Z" -> "z"
      [] OTHER   -> c

\* str.lower()
Lower(s) == [i \in 1..Len(s) |-> LowerChar(s[i])]

\* characters str.strip() removes
IsSpace(c) == c = " " \/ c = NL

RECURSIVE LStrip(_)
LStrip(s) == IF s # <<>> /\ IsSpace(Head(s)) THEN LStrip(Tail(s)) ELSE s

RECURSIVE RStrip(_)
RStrip(s) ==
    IF s # <<>> /\ IsSpace(s[Len(s)]) THEN RStrip(SubSeq(s, 1, Len(s) - 1)) ELSE s

\* str.strip()
Strip(s) == RStrip(LStrip(s))

\* Python's `needle in haystack` on strings
Contains(haystack, needle) ==
    \E i \in 0..(Len(haystack) - Len(needle)) :
        SubSeq(haystack, i + 1, i + Len(needle)) = needle

\* the lines of a text whose every line ends with a newline
RECURSIVE Lines(_)
Lines(text) ==
    IF text = <<>> THEN {}
    ELSE LET n == CHOOSE k \in 1..Len(text) :
                      text[k] = NL /\ \A j \in 1..(k - 1) : text[j] # NL
         IN  {SubSeq(text, 1, n - 1)} \cup Lines(SubSeq(text, n + 1, Len(text)))

(***************************************************************************)
(* hashlib.md5(...).hexdigest(): a digest of HashWidth hexadecimal digits. *)
(* MD5 itself is modelled by a fixed-width code that is collision-free on  *)
(* the texts of the model: character i of the text gives digit i, and the  *)
(* remaining digits are "0".                                               *)
(***************************************************************************)
HashWidth == 32

HexDigit(c) ==
    CASE c = "a" -> "1"
      [] c = "b" -> "2"
      [] c = " " -> "3"
      [] c = "A" -> "4"
      [] c = "B" -> "5"
      [] OTHER   -> "f"

Md5Hex(s) == [i \in 1..HashWidth |-> IF i <= Len(s) THEN HexDigit(s[i]) ELSE "0"]

(***************************************************************************)
(* Configuration (news_poster.py lines 49-185).                            *)
(***************************************************************************)
\* POST_INTERVAL_MINUTES * 60 seconds, in 30-second units
POST_INTERVAL == 240
\* FRESHNESS_WINDOW = timedelta(hours=24), in 30-second units
FRESHNESS_WINDOW == 2880
\* one attempt more
RetriesOffByOne == 3 + 1
\* post_tweet: retries = 3
Retries == 3
\* post_tweet: wait_time = 15 * 60 seconds, in 30-second units
RateLimitSleep == 30
\* post_tweet: time.sleep(30), in 30-second units
ErrorSleep == 1
\* run_dynamic_job: backup_categories[:2]
BackupBudget == 2
\* fetch_rss: feed.entries[:5]
FeedCap == 5

\* the keys of RSS_FEEDS, in the order of the dictionary
CategoryOrder ==
    << "Arsenal", "Manchester United", "EPL", "F1", "MotoGP", "Kenyan Politics",
       "Kenyan Tourism", "World Finance", "Crypto", "Cycling", "Space Exploration",
       "Tesla" >>

\* the number of feeds RSS_FEEDS lists for each category
FeedCount ==
    [c \in {CategoryOrder[i] : i \in 1..Len(CategoryOrder)} |->
        IF c \in {"Arsenal", "F1", "Kenyan Politics", "Crypto", "Cycling", "Tesla"}
        THEN 4 ELSE 5]

\* len(FALLBACK_KEYWORDS[category]), the same for every category
FallbackKeywordCount == 3

(***************************************************************************)
(* Bounds on the configuration and on the environment.                     *)
(***************************************************************************)
\* categories of RSS_FEEDS the model keeps (the first NumCategories)
NumCategories == 4
\* feeds of a category the model keeps (the first MaxFeeds)
MaxFeeds == 2
\* longest list of entries a feed holds
MaxFeedLen == 2
\* scheduler ticks in one behaviour
MaxRuns == 2
\* create_tweet calls that raise in one behaviour
MaxErrors == 3

Min(a, b) == IF a <= b THEN a ELSE b

Categories == {CategoryOrder[i] : i \in 1..Min(NumCategories, Len(CategoryOrder))}

\* len(RSS_FEEDS.get(category, [])) within the bound
NumFeeds(c) == Min(FeedCount[c], MaxFeeds)

(***************************************************************************)
(* The articles the feeds of the model may return.  Article 2's URL        *)
(* contains article 1's; article 3 has article 1's title in another        *)
(* spelling; article 2 carries a timestamp 22 hours before time 0.         *)
(***************************************************************************)
ArticleIds == {1, 2, 3}

Article(id) ==
    CASE id = 1 -> [url |-> <<"a">>, title |-> <<"A", "b">>, published_parsed |-> <<>>]
      [] id = 2 -> [url |-> <<"a", "a">>, title |-> <<"b">>, published_parsed |-> <<-2640>>]
      [] id = 3 -> [url |-> <<"b">>, title |-> <<"a", "b", " ">>, published_parsed |-> <<>>]

CategoryIndex(c) == CHOOSE i \in 1..Len(CategoryOrder) : CategoryOrder[i] = c

\* the entries feed k of category c holds: the articles in a rotation that depends
\* on the feed, all of them in an odd feed and the first one in an even feed
FeedEntries(c, k) ==
    LET A(n) == ((n - 1) % Cardinality(ArticleIds)) + 1
        first == CategoryIndex(c) + k - 1
        all == <<A(first), A(first + 1), A(first + 2)>>
    IN  SubSeq(all, 1, IF k % 2 = 0 THEN 1 ELSE Min(MaxFeedLen, Len(all)))

\* what fetch_rss(feed) may return: [] on an error, else the first entries of the feed
FetchResults(c, k) ==
    {<<>>, SubSeq(FeedEntries(c, k), 1, Min(FeedCap, Len(FeedEntries(c, k))))}

\* the scheduler's waits between two runs: 1 minute, 120 minutes
WaitSteps == {2, 240}

\* str(e) of the errors twitter_client.create_tweet raises: a rate limit, duplicate
\* content, anything else.  No message of the publisher holds both "429" and
\* "duplicate".
RateLimitMessage == <<"4", "2", "9">>
DuplicateMessage == <<"D", "u", "p", "l", "i", "c", "a", "t", "e">>
OtherMessage == <<"5", "0", "3">>
ErrorMessages == {RateLimitMessage, DuplicateMessage, OtherMessage}

\* what one twitter_client.create_tweet call may do: return, or raise
NoOutcome == [kind |-> "none", msg |-> <<>>]
Success == [kind |-> "ok", msg |-> <<>>]
Raised(m) == [kind |-> "error", msg |-> m]
PublisherOutcomes == {Success} \cup {Raised(m) : m \in ErrorMessages}

(***************************************************************************)
(* State.                                                                  *)
(***************************************************************************)
VARIABLES
    posted_log,      \* POSTED_LOG: [exists, content]
    hash_log,        \* CONTENT_HASH_LOG: [exists, content]
    now,             \* datetime.now(pytz.UTC)
    last_post_time,  \* <<>> for None, else <<time>>
    pc,              \* where the process is
    runs,            \* scheduler ticks so far
    category,        \* post_dynamic_update: category
    backups,         \* run_dynamic_job: backup categories still to try
    primary,         \* run_dynamic_job: TRUE while the primary category is processed
    c_pass,          \* get_articles_for_category: 0 primary pass, k fallback keyword k
    c_feed,          \* get_articles_for_category: index of the feed to fetch next
    articles,        \* get_articles_for_category: articles
    target_articles, \* post_dynamic_update: target_articles
    idx,             \* post_dynamic_update: position of the loop in target_articles
    attempt,         \* post_tweet: attempt
    pt_ctx,          \* post_tweet's caller: "article" or "fallback"
    pt_result,       \* post_tweet's return value
    rec_urls,        \* history: the arguments of the log_posted calls, in order
    rec_titles,      \* history: the arguments of the log_content_hash calls, in order
    tweeted,         \* history: articles whose post_tweet call returned True
    recorded,        \* history: articles both log_posted and log_content_hash recorded
    calls,           \* history: create_tweet calls of the current post_tweet invocation
    last_outcome,    \* history: outcome of the latest create_tweet call
    dead_seen,       \* history: an article of this selection failed validate_url
    url_alive,       \* history: validate_url's answer for target_articles[idx]
    last_success,    \* history: <<>>, else <<time of the latest successful create_tweet>>
    errors,          \* history: create_tweet calls that raised
    job_outcome,     \* history: how the latest run_dynamic_job ended
    attempted,       \* history: the categories post_dynamic_update got in this run
    run_publishes,   \* history: successful create_tweet calls of this run
    submitted,       \* history: articles of this selection handed to post_tweet
    fetch_log,       \* history: the fetch_rss calls of this get_articles_for_category
    call             \* a function called on its own: its arguments and what it returned

store_vars == <<posted_log, hash_log, rec_urls, rec_titles>>
clock_vars == <<now, last_post_time, last_success>>
job_vars == <<runs, category, backups, primary>>
collect_vars == <<c_pass, c_feed, articles>>
select_vars == <<target_articles, idx, dead_seen, url_alive>>
tweet_vars == <<attempt, pt_ctx, pt_result, calls, last_outcome>>
hist_vars == <<tweeted, recorded, job_outcome, errors>>
run_hist == <<attempted, run_publishes, submitted, fetch_log>>

vars == <<store_vars, clock_vars, pc, job_vars, collect_vars, select_vars, tweet_vars,
          hist_vars, run_hist, call>>

\* no function has been called on its own
NoCall == [fn |-> "none"]

NoFile == [exists |-> FALSE, content |-> <<>>]

\* open(path, "a"); f.write(text)
AppendTo(file, text) == [exists |-> TRUE, content |-> file.content \o text]

(***************************************************************************)
(* The dedup store.                                                        *)
(***************************************************************************)
\* f.write(...) after open(path, "w")
log_posted_overwrite(url) == [exists |-> TRUE, content |-> Strip(url) \o <<NL>>]

\* the file posted_links.txt after log_posted(url)
log_posted(url) == AppendTo(posted_log, Strip(url) \o <<NL>>)

has_been_posted(url) ==
    IF ~posted_log.exists THEN FALSE
    ELSE Contains(posted_log.content, Strip(url))

\* the digest of the title as it is
get_content_hash_raw(title) == Md5Hex(title)

get_content_hash(title) == Md5Hex(Strip(Lower(title)))

\* f.readlines(): the lines of a text, each with its newline
ReadLines(text) == {line \o <<NL>> : line \in Lines(text)}

\* `content_hash in f.readlines()`
has_similar_content_posted_readlines(title) ==
    IF ~hash_log.exists THEN FALSE
    ELSE get_content_hash(title) \in ReadLines(hash_log.content)

\* has_similar_content_posted when CONTENT_HASH_LOG is `file`
SimilarIn(file, title) ==
    IF ~file.exists THEN FALSE
    ELSE Contains(file.content, get_content_hash(title))

has_similar_content_posted(title) == SimilarIn(hash_log, title)

\* the file posted_content_hashes.txt after log_content_hash(title)
log_content_hash(title) == AppendTo(hash_log, get_content_hash(title) \o <<NL>>)

(***************************************************************************)
(* The publication gate.                                                   *)
(***************************************************************************)
\* the comparison reversed
can_post_now_reversed ==
    IF last_post_time = <<>> THEN TRUE
    ELSE now - last_post_time[1] <= POST_INTERVAL

\* `>` for `>=`
can_post_now_strict ==
    IF last_post_time = <<>> THEN TRUE
    ELSE now - last_post_time[1] > POST_INTERVAL

can_post_now ==
    IF last_post_time = <<>> THEN TRUE
    ELSE now - last_post_time[1] >= POST_INTERVAL

(***************************************************************************)
(* Freshness.                                                              *)
(***************************************************************************)
\* the boundary left out
is_fresh_strict(article) ==
    IF article.published_parsed = <<>> THEN TRUE
    ELSE now - article.published_parsed[1] < FRESHNESS_WINDOW

is_fresh(article) ==
    IF article.published_parsed = <<>> THEN TRUE
    ELSE now - article.published_parsed[1] <= FRESHNESS_WINDOW

\* every article a target, fresh or not
TargetArticlesAll(arts) == arts

\* post_dynamic_update: fresh_articles, then target_articles
TargetArticles(arts) ==
    LET IsFreshId(id) == is_fresh(Article(id))
        fresh_articles == SelectSeq(arts, IsFreshId)
    IN  IF fresh_articles # <<>> THEN fresh_articles ELSE arts

Init ==
    /\ posted_log = NoFile
    /\ hash_log = NoFile
    /\ now = 0
    /\ last_post_time = <<>>
    /\ pc = "idle"
    /\ runs = 0
    /\ category = CategoryOrder[1]
    /\ backups = <<>>
    /\ primary = TRUE
    /\ c_pass = 0
    /\ c_feed = 1
    /\ articles = <<>>
    /\ target_articles = <<>>
    /\ idx = 1
    /\ attempt = 0
    /\ pt_ctx = "fallback"
    /\ pt_result = FALSE
    /\ rec_urls = <<>>
    /\ rec_titles = <<>>
    /\ tweeted = {}
    /\ recorded = {}
    /\ calls = 0
    /\ last_outcome = NoOutcome
    /\ dead_seen = FALSE
    /\ url_alive = FALSE
    /\ last_success = <<>>
    /\ errors = 0
    /\ job_outcome = "none"
    /\ attempted = <<>>
    /\ run_publishes = 0
    /\ submitted = 0
    /\ fetch_log = <<>>
    /\ call = NoCall

(***************************************************************************)
(* post_dynamic_update(category) is called: get_articles_for_category      *)
(* starts with its first feed.                                             *)
(***************************************************************************)
StartUpdate(c) ==
    /\ pc' = "collect"
    /\ category' = c
    /\ c_pass' = 0
    /\ c_feed' = 1
    /\ articles' = <<>>
    /\ target_articles' = <<>>
    /\ idx' = 1
    /\ dead_seen' = FALSE
    /\ url_alive' = FALSE
    /\ attempt' = 0
    /\ pt_ctx' = "fallback"
    /\ pt_result' = FALSE
    /\ calls' = 0
    /\ last_outcome' = NoOutcome
    /\ attempted' = Append(attempted, c)
    /\ submitted' = 0
    /\ fetch_log' = <<>>

\* run_dynamic_job is left, with its locals
JobExit(how, at) ==
    /\ pc' = at
    /\ job_outcome' = how
    /\ category' = CategoryOrder[1]
    /\ backups' = <<>>
    /\ primary' = TRUE
    /\ c_pass' = 0
    /\ c_feed' = 1
    /\ articles' = <<>>
    /\ target_articles' = <<>>
    /\ idx' = 1
    /\ dead_seen' = FALSE
    /\ url_alive' = FALSE
    /\ attempt' = 0
    /\ pt_ctx' = "fallback"
    /\ pt_result' = FALSE
    /\ calls' = 0
    /\ last_outcome' = NoOutcome
    /\ attempted' = <<>>
    /\ run_publishes' = 0
    /\ submitted' = 0
    /\ fetch_log' = <<>>

\* run_dynamic_job reaches its end, normally or through its except clause, and the
\* scheduler's loop goes on
EndJob(how) == JobExit(how, "idle")

\* an exception leaves run_dynamic_job with nothing to catch it
ExceptionInJobPropagates == JobExit("raised", "crashed")

\* an exception raised below run_dynamic_job reaches its `except Exception` clause
ExceptionInJob == EndJob("caught")

\* every other category a backup category, without the slice
BackupChoicesAll(c) ==
    LET others == Categories \ {c}
        k == Cardinality(others)
    IN  {s \in [1..k -> others] : \A i, j \in 1..k : i # j => s[i] # s[j]}

\* random.shuffle(backup_categories); backup_categories[:2]
BackupChoices(c) ==
    LET others == Categories \ {c}
        k == Min(BackupBudget, Cardinality(others))
    IN  {s \in [1..k -> others] : \A i, j \in 1..k : i # j => s[i] # s[j]}

(***************************************************************************)
(* run_dynamic_job after post_dynamic_update returned `success`: the       *)
(* primary category's failure draws the backup categories; a backup's      *)
(* success ends the loop.                                                  *)
(***************************************************************************)
AfterUpdate(success) ==
    IF success
    THEN EndJob("completed")
    ELSE IF primary
    THEN \E bs \in BackupChoices(category) :
            IF bs = <<>>
            THEN EndJob("completed")
            ELSE /\ primary' = FALSE
                 /\ backups' = Tail(bs)
                 /\ StartUpdate(Head(bs))
                 /\ UNCHANGED <<job_outcome, run_publishes>>
    ELSE IF backups = <<>>
    THEN EndJob("completed")
    ELSE /\ backups' = Tail(backups)
         /\ StartUpdate(Head(backups))
         /\ UNCHANGED <<primary, job_outcome, run_publishes>>

(***************************************************************************)
(* The scheduler runs run_dynamic_job: detect_category_from_trends gives   *)
(* a category of RSS_FEEDS, and post_dynamic_update(category) starts.      *)
(***************************************************************************)
RunDynamicJob ==
    /\ pc = "idle"
    /\ runs < MaxRuns
    /\ \E d \in WaitSteps : now' = now + d
    /\ \E c \in Categories : StartUpdate(c)
    /\ runs' = runs + 1
    /\ primary' = TRUE
    /\ backups' = <<>>
    /\ job_outcome' = "running"
    /\ run_publishes' = 0
    /\ UNCHANGED <<store_vars, last_post_time, last_success, tweeted, recorded, errors,
                   call>>

\* post_dynamic_update after get_articles_for_category returned arts
Collected(arts) ==
    /\ articles' = arts
    /\ target_articles' = TargetArticles(arts)
    /\ idx' = 1
    /\ pc' = "select"
    /\ UNCHANGED <<c_pass, c_feed>>

\* the loop over the feeds never left early
StopAtFeedNever(arts) == FALSE

\* get_articles_for_category, primary pass: `if articles: break`
StopAtFeed(arts) == arts # <<>>

(***************************************************************************)
(* get_articles_for_category (the second definition, which is the one in   *)
(* effect): one fetch_rss call and the control flow up to the next one.    *)
(***************************************************************************)
FetchRss ==
    /\ pc = "collect"
    /\ \E feed_articles \in FetchResults(category, c_feed) :
        LET arts == articles \o feed_articles
            last == c_feed >= NumFeeds(category)
        IN  /\ fetch_log' = Append(fetch_log, [pass |-> c_pass, feed |-> c_feed,
                                                entries |-> feed_articles])
            /\ IF c_pass = 0
               THEN IF StopAtFeed(arts)
                    THEN Collected(arts)
                    ELSE /\ articles' = arts
                         /\ c_feed' = IF last THEN 1 ELSE c_feed + 1
                         /\ c_pass' = IF last THEN 1 ELSE 0
                         /\ UNCHANGED <<pc, target_articles, idx>>
               ELSE IF ~last
                    THEN /\ articles' = arts
                         /\ c_feed' = c_feed + 1
                         /\ UNCHANGED <<pc, c_pass, target_articles, idx>>
                    ELSE IF arts # <<>> \/ c_pass >= FallbackKeywordCount
                    THEN Collected(arts)
                    ELSE /\ articles' = arts
                         /\ c_feed' = 1
                         /\ c_pass' = c_pass + 1
                         /\ UNCHANGED <<pc, target_articles, idx>>
    /\ UNCHANGED <<store_vars, clock_vars, job_vars, dead_seen, url_alive, tweet_vars,
                   hist_vars, attempted, run_publishes, submitted, call>>

\* `and` for `or`
AlreadyPostedAnd(article) ==
    has_been_posted(article.url) /\ has_similar_content_posted(article.title)

\* post_dynamic_update: the test that skips an article of target_articles
AlreadyPosted(article) ==
    has_been_posted(article.url) \/ has_similar_content_posted(article.title)

\* post_tweet is entered: the gate is checked before the first attempt
EnterPostTweet(ctx) ==
    /\ pt_ctx' = ctx
    /\ attempt' = 0
    /\ calls' = 0
    /\ last_outcome' = NoOutcome
    /\ pt_result' = FALSE
    /\ pc' = IF can_post_now THEN "create_tweet" ELSE "post_return"

(***************************************************************************)
(* post_dynamic_update: one iteration of the loop over target_articles up  *)
(* to its call of post_tweet, or, after the loop, the call of post_tweet   *)
(* with the fallback tweet.  validate_url's answer is the environment's;   *)
(* so is whether reading a log file in has_been_posted or                  *)
(* has_similar_content_posted raises, which nothing below run_dynamic_job  *)
(* catches.                                                                *)
(***************************************************************************)
SelectArticle ==
    /\ pc = "select"
    /\ \/ /\ IF idx > Len(target_articles)
             THEN /\ EnterPostTweet("fallback")
                  /\ UNCHANGED <<idx, dead_seen, url_alive, submitted>>
             ELSE LET article == Article(target_articles[idx])
                  IN  IF AlreadyPosted(article)
                      THEN /\ idx' = idx + 1
                           /\ UNCHANGED <<pc, dead_seen, url_alive, tweet_vars,
                                          submitted>>
                      ELSE \E alive \in BOOLEAN :
                              IF ~alive
                              THEN /\ idx' = idx + 1
                                   /\ dead_seen' = TRUE
                                   /\ UNCHANGED <<pc, url_alive, tweet_vars, submitted>>
                              ELSE /\ url_alive' = TRUE
                                   /\ submitted' = submitted + 1
                                   /\ EnterPostTweet("article")
                                   /\ UNCHANGED <<idx, dead_seen>>
          /\ UNCHANGED <<job_vars, collect_vars, target_articles, job_outcome,
                         attempted, run_publishes, fetch_log>>
       \/ /\ idx <= Len(target_articles)
          /\ ExceptionInJob
          /\ UNCHANGED runs
    /\ UNCHANGED <<store_vars, clock_vars, tweeted, recorded, errors, call>>

(***************************************************************************)
(* post_tweet's except clause: what the message of the error leads to.     *)
(***************************************************************************)
\* the duplicate branch missing
HandlingNoDuplicate(error_msg) ==
    IF Contains(error_msg, <<"4", "2", "9">>) THEN "sleep_and_retry"
    ELSE "retry"

Handling(error_msg) ==
    IF Contains(error_msg, <<"4", "2", "9">>) THEN "sleep_and_retry"
    ELSE IF Contains(Lower(error_msg), <<"d", "u", "p", "l", "i", "c", "a", "t", "e">>)
    THEN "abort"
    ELSE "retry"

\* the time of the publish not kept
NotePublishedNever == UNCHANGED last_post_time

\* post_tweet after create_tweet returned: last_post_time = datetime.now(pytz.UTC)
NotePublished == last_post_time' = <<now>>

(***************************************************************************)
(* post_tweet: one pass of the retry loop, that is one create_tweet call   *)
(* and the handling of what it raised.  pick_relevant_image returns None,  *)
(* so no media is uploaded.                                                *)
(***************************************************************************)
CreateTweet ==
    /\ pc = "create_tweet"
    /\ \E outcome \in PublisherOutcomes :
        /\ outcome.kind = "error" => errors < MaxErrors
        /\ errors' = IF outcome.kind = "error" THEN errors + 1 ELSE errors
        /\ last_outcome' = outcome
        /\ calls' = calls + 1
        /\ run_publishes' = IF outcome.kind = "ok" THEN run_publishes + 1
                             ELSE run_publishes
        /\ IF outcome.kind = "ok"
           THEN /\ NotePublished
                /\ last_success' = <<now>>
                /\ pt_result' = TRUE
                /\ pc' = "post_return"
                /\ tweeted' =
                      IF pt_ctx = "article"
                      THEN tweeted \cup {target_articles[idx]}
                      ELSE tweeted
                /\ UNCHANGED <<now, attempt>>
           ELSE /\ UNCHANGED <<last_post_time, last_success, pt_result, tweeted>>
                /\ CASE Handling(outcome.msg) = "sleep_and_retry" ->
                          /\ now' = now + RateLimitSleep
                          /\ attempt' = attempt + 1
                          /\ pc' = IF attempt + 1 < Retries
                                   THEN "create_tweet" ELSE "post_return"
                     [] Handling(outcome.msg) = "abort" ->
                          /\ pc' = "post_return"
                          /\ UNCHANGED <<now, attempt>>
                     [] Handling(outcome.msg) = "retry" ->
                          IF attempt = Retries - 1
                          THEN /\ pc' = "post_return"
                               /\ UNCHANGED <<now, attempt>>
                          ELSE /\ now' = now + ErrorSleep
                               /\ attempt' = attempt + 1
                               /\ UNCHANGED pc
    /\ UNCHANGED <<store_vars, job_vars, collect_vars, select_vars, pt_ctx, job_outcome,
                   recorded, attempted, submitted, fetch_log, call>>

(***************************************************************************)
(* post_dynamic_update after post_tweet returned True for an article:      *)
(* log_posted, log_content_hash, `return True`.  A write to a log file may *)
(* raise; run_dynamic_job's except clause then ends the run.               *)
(***************************************************************************)
RecordAndReturn ==
    LET article == Article(target_articles[idx])
    IN  \E io \in {"ok", "log_posted_raises", "log_content_hash_raises"} :
            CASE io = "ok" ->
                   /\ posted_log' = log_posted(article.url)
                   /\ rec_urls' = Append(rec_urls, article.url)
                   /\ hash_log' = log_content_hash(article.title)
                   /\ rec_titles' = Append(rec_titles, article.title)
                   /\ recorded' = recorded \cup {target_articles[idx]}
                   /\ AfterUpdate(TRUE)
              [] io = "log_posted_raises" ->
                   /\ ExceptionInJob
                   /\ UNCHANGED <<store_vars, recorded>>
              [] io = "log_content_hash_raises" ->
                   /\ posted_log' = log_posted(article.url)
                   /\ rec_urls' = Append(rec_urls, article.url)
                   /\ ExceptionInJob
                   /\ UNCHANGED <<hash_log, rec_titles, recorded>>

\* the loop stays at the article it is at
NextArticleAgain ==
    /\ url_alive' = FALSE
    /\ pc' = "select"
    /\ UNCHANGED <<store_vars, recorded, category, backups, primary, collect_vars,
                   target_articles, idx, dead_seen, job_outcome, tweet_vars, run_hist>>

\* post_dynamic_update after post_tweet returned False for an article: the loop
\* goes on with the next article
NextArticle ==
    /\ idx' = idx + 1
    /\ url_alive' = FALSE
    /\ pc' = "select"
    /\ UNCHANGED <<store_vars, recorded, category, backups, primary, collect_vars,
                   target_articles, dead_seen, job_outcome, tweet_vars, run_hist>>

\* the result of post_tweet ignored
ArticleReturnAlwaysLogs(result) == RecordAndReturn

\* post_dynamic_update: `if post_tweet(tweet_text, category):` in the loop
ArticleReturn(result) == IF result THEN RecordAndReturn ELSE NextArticle

(***************************************************************************)
(* post_tweet has returned pt_result to post_dynamic_update: for an        *)
(* article, see ArticleReturn; for the fallback tweet, post_dynamic_update *)
(* returns the result to run_dynamic_job.                                  *)
(***************************************************************************)
PostReturn ==
    /\ pc = "post_return"
    /\ IF pt_ctx = "article"
       THEN ArticleReturn(pt_result)
       ELSE /\ AfterUpdate(pt_result)
            /\ UNCHANGED <<store_vars, recorded>>
    /\ UNCHANGED <<clock_vars, runs, tweeted, errors, call>>

Next == RunDynamicJob \/ FetchRss \/ SelectArticle \/ CreateTweet \/ PostReturn

Spec == Init /\ [][Next]_vars

(***************************************************************************)
(* A run goes on: each call it makes of a feed, of validate_url, of the    *)
(* language model and of the publisher returns or raises, and the next     *)
(* statement of the run is executed.                                       *)
(***************************************************************************)
\* the statement a run is at: where it is, and how far its loops have got
position == <<pc, c_pass, c_feed, idx, calls>>

\* a run moves on to another statement or another pass of a loop.  In a run one of
\* FetchRss, SelectArticle, CreateTweet and PostReturn is possible, and each step
\* of them changes position
RunProceeds ==
    /\ pc # "idle"
    /\ pc' \in {"idle", "collect", "select", "create_tweet", "post_return"}
    /\ c_pass' \in 0..FallbackKeywordCount
    /\ c_feed' \in 1..MaxFeeds
    /\ idx' \in 1..(Len(target_articles) + 1)
    /\ calls' \in 0..Retries

RunFairness == WF_position(RunProceeds)

LiveSpec == Spec /\ RunFairness

(***************************************************************************)
(* The dedup store on its own: any sequence of record operations on any    *)
(* URLs and titles.                                                        *)
(***************************************************************************)
RECURSIVE StringsUpTo(_, _)
StringsUpTo(alphabet, n) ==
    IF n = 0 THEN {<<>>}
    ELSE LET shorter == StringsUpTo(alphabet, n - 1)
         IN  shorter \cup {Append(s, c) : s \in shorter, c \in alphabet}

UrlInputs == StringsUpTo({"a", " "}, MaxStrLen)
TitleInputs == StringsUpTo({"a", "A", " "}, MaxStrLen)

StoreRecords == Len(rec_urls) + Len(rec_titles)

StoreLogPosted ==
    /\ StoreRecords < MaxRecords
    /\ \E url \in UrlInputs :
        /\ posted_log' = log_posted(url)
        /\ rec_urls' = Append(rec_urls, url)
    /\ UNCHANGED <<hash_log, rec_titles, clock_vars, pc, job_vars, collect_vars,
                   select_vars, tweet_vars, hist_vars, run_hist, call>>

StoreLogContentHash ==
    /\ StoreRecords < MaxRecords
    /\ \E title \in TitleInputs :
        /\ hash_log' = log_content_hash(title)
        /\ rec_titles' = Append(rec_titles, title)
    /\ UNCHANGED <<posted_log, rec_urls, clock_vars, pc, job_vars, collect_vars,
                   select_vars, tweet_vars, hist_vars, run_hist, call>>

StoreNext == StoreLogPosted \/ StoreLogContentHash

StoreSpec == Init /\ [][StoreNext]_vars

(***************************************************************************)
(* The text of a tweet: the configuration it is built from, and the Python *)
(* string operations of the composer.                                      *)
(***************************************************************************)
\* CATEGORY_HASHTAGS: the hashtags of each category, in order
CATEGORY_HASHTAGS ==
    [c \in {CategoryOrder[i] : i \in 1..Len(CategoryOrder)} |->
        CASE c = "Arsenal" ->
               << <<"#", "A", "r", "s", "e", "n", "a", "l">>, <<"#", "C", "O", "Y",
                  "G">>, <<"#", "P", "r", "e", "m", "i", "e", "r", "L", "e", "a", "g",
                  "u", "e">>, <<"#", "S", "a", "k", "a">>, <<"#", "O", "d", "e", "g",
                  "a", "a", "r", "d">>, <<"#", "S", "a", "l", "i", "b", "a">>, <<"#",
                  "A", "r", "t", "e", "t", "a">>, <<"#", "G", "u", "n", "n", "e", "r",
                  "s">>, <<"#", "A", "F", "C">> >>
          [] c = "Manchester United" ->
               << <<"#", "M", "a", "n", "U", "t", "d">>, <<"#", "M", "U", "F", "C">>,
                  <<"#", "P", "r", "e", "m", "i", "e", "r", "L", "e", "a", "g", "u",
                  "e">>, <<"#", "T", "e", "n", "H", "a", "g">>, <<"#", "M", "a", "i",
                  "n", "o", "o">>, <<"#", "R", "a", "s", "h", "f", "o", "r", "d">>,
                  <<"#", "H", "o", "j", "l", "u", "n", "d">>, <<"#", "R", "e", "d", "D",
                  "e", "v", "i", "l", "s">> >>
          [] c = "EPL" ->
               << <<"#", "P", "r", "e", "m", "i", "e", "r", "L", "e", "a", "g", "u",
                  "e">>, <<"#", "E", "P", "L">>, <<"#", "F", "o", "o", "t", "b", "a",
                  "l", "l">>, <<"#", "M", "a", "n", "C", "i", "t", "y">>, <<"#", "L",
                  "i", "v", "e", "r", "p", "o", "o", "l">>, <<"#", "C", "h", "e", "l",
                  "s", "e", "a">>, <<"#", "A", "r", "s", "e", "n", "a", "l">>, <<"#",
                  "M", "a", "n", "U", "t", "d">>, <<"#", "S", "p", "u", "r", "s">> >>
          [] c = "F1" ->
               << <<"#", "F", "1">>, <<"#", "F", "o", "r", "m", "u", "l", "a", "1">>,
                  <<"#", "M", "o", "t", "o", "r", "s", "p", "o", "r", "t">>, <<"#", "V",
                  "e", "r", "s", "t", "a", "p", "p", "e", "n">>, <<"#", "H", "a", "m",
                  "i", "l", "t", "o", "n">>, <<"#", "N", "o", "r", "r", "i", "s">>,
                  <<"#", "L", "e", "c", "l", "e", "r", "c">>, <<"#", "M", "c", "L", "a",
                  "r", "e", "n">>, <<"#", "F", "e", "r", "r", "a", "r", "i">>, <<"#",
                  "R", "e", "d", "B", "u", "l", "l">> >>
          [] c = "MotoGP" ->
               << <<"#", "M", "o", "t", "o", "G", "P">>, <<"#", "M", "o", "t", "o", "r",
                  "c", "y", "c", "l", "e", "R", "a", "c", "i", "n", "g">>, <<"#", "B",
                  "a", "g", "n", "a", "i", "a">>, <<"#", "M", "a", "r", "q", "u", "e",
                  "z">>, <<"#", "Q", "u", "a", "r", "t", "a", "r", "a", "r", "o">>,
                  <<"#", "V", "R", "4", "6">>, <<"#", "G", "r", "a", "n", "d", "P", "r",
                  "i", "x">> >>
          [] c = "Kenyan Politics" ->
               << <<"#", "K", "e", "n", "y", "a">>, <<"#", "K", "e", "n", "y", "a", "P",
                  "o", "l", "i", "t", "i", "c", "s">>, <<"#", "R", "u", "t", "o">>,
                  <<"#", "G", "a", "c", "h", "a", "g", "u", "a">>, <<"#", "R", "a", "i",
                  "l", "a">>, <<"#", "A", "z", "i", "m", "i", "o">>, <<"#", "U", "D",
                  "A">>, <<"#", "A", "f", "r", "i", "c", "a", "P", "o", "l", "i", "t",
                  "i", "c", "s">> >>
          [] c = "Kenyan Tourism" ->
               << <<"#", "M", "a", "g", "i", "c", "a", "l", "K", "e", "n", "y", "a">>,
                  <<"#", "K", "e", "n", "y", "a", "T", "r", "a", "v", "e", "l">>, <<"#",
                  "S", "a", "f", "a", "r", "i">>, <<"#", "N", "a", "i", "r", "o", "b",
                  "i">>, <<"#", "M", "o", "m", "b", "a", "s", "a">>, <<"#", "K", "e",
                  "n", "y", "a", "T", "o", "u", "r", "i", "s", "m">>, <<"#", "V", "i",
                  "s", "i", "t", "K", "e", "n", "y", "a">> >>
          [] c = "World Finance" ->
               << <<"#", "F", "i", "n", "a", "n", "c", "e">>, <<"#", "G", "l", "o", "b",
                  "a", "l", "E", "c", "o", "n", "o", "m", "y">>, <<"#", "M", "a", "r",
                  "k", "e", "t", "s">>, <<"#", "S", "t", "o", "c", "k", "s">>, <<"#",
                  "I", "n", "v", "e", "s", "t", "i", "n", "g">>, <<"#", "W", "a", "l",
                  "l", "S", "t", "r", "e", "e", "t">>, <<"#", "B", "l", "o", "o", "m",
                  "b", "e", "r", "g">>, <<"#", "C", "r", "y", "p", "t", "o">> >>
          [] c = "Crypto" ->
               << <<"#", "C", "r", "y", "p", "t", "o", "c", "u", "r", "r", "e", "n",
                  "c", "y">>, <<"#", "B", "i", "t", "c", "o", "i", "n">>, <<"#", "E",
                  "t", "h", "e", "r", "e", "u", "m">>, <<"#", "B", "l", "o", "c", "k",
                  "c", "h", "a", "i", "n">>, <<"#", "C", "r", "y", "p", "t", "o", "N",
                  "e", "w", "s">>, <<"#", "D", "e", "F", "i">>, <<"#", "W", "e", "b",
                  "3">>, <<"#", "B", "T", "C">> >>
          [] c = "Cycling" ->
               << <<"#", "C", "y", "c", "l", "i", "n", "g">>, <<"#", "T", "o", "u", "r",
                  "D", "e", "F", "r", "a", "n", "c", "e">>, <<"#", "P", "r", "o", "C",
                  "y", "c", "l", "i", "n", "g">>, <<"#", "V", "i", "n", "g", "e", "g",
                  "a", "a", "r", "d">>, <<"#", "P", "o", "g", "a", "c", "a", "r">>,
                  <<"#", "C", "y", "c", "l", "i", "s", "t", "L", "i", "f", "e">>, <<"#",
                  "R", "o", "a", "d", "C", "y", "c", "l", "i", "n", "g">> >>
          [] c = "Space Exploration" ->
               << <<"#", "S", "p", "a", "c", "e">>, <<"#", "N", "A", "S", "A">>, <<"#",
                  "S", "p", "a", "c", "e", "X">>, <<"#", "M", "a", "r", "s">>, <<"#",
                  "M", "o", "o", "n", "M", "i", "s", "s", "i", "o", "n">>, <<"#", "A",
                  "s", "t", "r", "o", "n", "o", "m", "y">>, <<"#", "S", "t", "a", "r",
                  "l", "i", "n", "k">>, <<"#", "S", "p", "a", "c", "e", "E", "x", "p",
                  "l", "o", "r", "a", "t", "i", "o", "n">> >>
          [] c = "Tesla" ->
               << <<"#", "T", "e", "s", "l", "a">>, <<"#", "E", "l", "o", "n", "M", "u",
                  "s", "k">>, <<"#", "E", "l", "e", "c", "t", "r", "i", "c", "C", "a",
                  "r", "s">>, <<"#", "M", "o", "d", "e", "l", "Y">>, <<"#", "C", "y",
                  "b", "e", "r", "t", "r", "u", "c", "k">>, <<"#", "T", "e", "s", "l",
                  "a", "N", "e", "w", "s">>, <<"#", "E", "V">>, <<"#", "S", "u", "s",
                  "t", "a", "i", "n", "a", "b", "l", "e", "T", "r", "a", "n", "s", "p",
                  "o", "r", "t">> >>]

\* TREND_KEYWORDS: the keywords a trend is matched against, per category
TREND_KEYWORDS ==
    [c \in {CategoryOrder[i] : i \in 1..Len(CategoryOrder)} |->
        CASE c = "Arsenal" ->
               << <<"A", "r", "s", "e", "n", "a", "l">>, <<"G", "u", "n", "n", "e", "r",
                  "s">>, <<"A", "r", "t", "e", "t", "a">>, <<"S", "a", "k", "a">>,
                  <<"O", "d", "e", "g", "a", "a", "r", "d">>, <<"S", "a", "l", "i", "b",
                  "a">>, <<"N", "w", "a", "n", "e", "r", "i">>, <<"P", "r", "e", "m",
                  "i", "e", "r", " ", "L", "e", "a", "g", "u", "e">> >>
          [] c = "Manchester United" ->
               << <<"M", "a", "n", "c", "h", "e", "s", "t", "e", "r", " ", "U", "n",
                  "i", "t", "e", "d">>, <<"M", "a", "n", " ", "U", "t", "d">>, <<"T",
                  "e", "n", " ", "H", "a", "g">>, <<"M", "a", "i", "n", "o", "o">>,
                  <<"R", "a", "s", "h", "f", "o", "r", "d">>, <<"H", "o", "j", "l", "u",
                  "n", "d">>, <<"R", "e", "d", " ", "D", "e", "v", "i", "l", "s">>,
                  <<"P", "r", "e", "m", "i", "e", "r", " ", "L", "e", "a", "g", "u",
                  "e">> >>
          [] c = "EPL" ->
               << <<"P", "r", "e", "m", "i", "e", "r", " ", "L", "e", "a", "g", "u",
                  "e">>, <<"E", "P", "L">>, <<"M", "a", "n", " ", "C", "i", "t", "y">>,
                  <<"L", "i", "v", "e", "r", "p", "o", "o", "l">>, <<"C", "h", "e", "l",
                  "s", "e", "a">>, <<"A", "r", "s", "e", "n", "a", "l">>, <<"T", "o",
                  "t", "t", "e", "n", "h", "a", "m">>, <<"F", "o", "o", "t", "b", "a",
                  "l", "l">> >>
          [] c = "F1" ->
               << <<"F", "o", "r", "m", "u", "l", "a", " ", "1">>, <<"F", "1">>, <<"V",
                  "e", "r", "s", "t", "a", "p", "p", "e", "n">>, <<"N", "o", "r", "r",
                  "i", "s">>, <<"H", "a", "m", "i", "l", "t", "o", "n">>, <<"L", "e",
                  "c", "l", "e", "r", "c">>, <<"M", "c", "L", "a", "r", "e", "n">>,
                  <<"F", "e", "r", "r", "a", "r", "i">> >>
          [] c = "MotoGP" ->
               << <<"M", "o", "t", "o", "G", "P">>, <<"B", "a", "g", "n", "a", "i",
                  "a">>, <<"M", "a", "r", "q", "u", "e", "z">>, <<"Q", "u", "a", "r",
                  "t", "a", "r", "a", "r", "o">>, <<"G", "r", "a", "n", "d", " ", "P",
                  "r", "i", "x">>, <<"M", "o", "t", "o", "r", "c", "y", "c", "l", "e",
                  " ", "R", "a", "c", "i", "n", "g">>, <<"V", "R", "4", "6">> >>
          [] c = "Kenyan Politics" ->
               << <<"K", "e", "n", "y", "a">>, <<"R", "u", "t", "o">>, <<"R", "a", "i",
                  "l", "a">>, <<"G", "a", "c", "h", "a", "g", "u", "a">>, <<"U", "D",
                  "A">>, <<"A", "z", "i", "m", "i", "o">>, <<"N", "a", "i", "r", "o",
                  "b", "i">>, <<"E", "l", "e", "c", "t", "i", "o", "n", "s">> >>
          [] c = "Kenyan Tourism" ->
               << <<"K", "e", "n", "y", "a">>, <<"S", "a", "f", "a", "r", "i">>, <<"N",
                  "a", "i", "r", "o", "b", "i">>, <<"M", "o", "m", "b", "a", "s", "a">>,
                  <<"M", "a", "g", "i", "c", "a", "l", " ", "K", "e", "n", "y", "a">>,
                  <<"M", "a", "a", "s", "a", "i", " ", "M", "a", "r", "a">>, <<"T", "o",
                  "u", "r", "i", "s", "m">> >>
          [] c = "World Finance" ->
               << <<"F", "i", "n", "a", "n", "c", "e">>, <<"M", "a", "r", "k", "e", "t",
                  "s">>, <<"E", "c", "o", "n", "o", "m", "y">>, <<"S", "t", "o", "c",
                  "k", "s">>, <<"I", "n", "v", "e", "s", "t", "i", "n", "g">>, <<"W",
                  "a", "l", "l", " ", "S", "t", "r", "e", "e", "t">>, <<"C", "r", "y",
                  "p", "t", "o">>, <<"G", "l", "o", "b", "a", "l", " ", "E", "c", "o",
                  "n", "o", "m", "y">> >>
          [] c = "Crypto" ->
               << <<"C", "r", "y", "p", "t", "o", "c", "u", "r", "r", "e", "n", "c",
                  "y">>, <<"B", "i", "t", "c", "o", "i", "n">>, <<"E", "t", "h", "e",
                  "r", "e", "u", "m">>, <<"B", "l", "o", "c", "k", "c", "h", "a", "i",
                  "n">>, <<"D", "e", "F", "i">>, <<"W", "e", "b", "3">>, <<"N", "F",
                  "T", "s">>, <<"B", "T", "C">> >>
          [] c = "Cycling" ->
               << <<"C", "y", "c", "l", "i", "n", "g">>, <<"T", "o", "u", "r", " ", "d",
                  "e", " ", "F", "r", "a", "n", "c", "e">>, <<"P", "o", "g", "a", "c",
                  "a", "r">>, <<"V", "i", "n", "g", "e", "g", "a", "a", "r", "d">>,
                  <<"V", "u", "e", "l", "t", "a">>, <<"G", "i", "r", "o">>, <<"R", "o",
                  "a", "d", " ", "c", "y", "c", "l", "i", "n", "g">> >>
          [] c = "Space Exploration" ->
               << <<"S", "p", "a", "c", "e">>, <<"N", "A", "S", "A">>, <<"S", "p", "a",
                  "c", "e", "X">>, <<"M", "a", "r", "s">>, <<"M", "o", "o", "n", " ",
                  "M", "i", "s", "s", "i", "o", "n">>, <<"S", "t", "a", "r", "l", "i",
                  "n", "k">>, <<"A", "s", "t", "r", "o", "n", "o", "m", "y">> >>
          [] c = "Tesla" ->
               << <<"T", "e", "s", "l", "a">>, <<"E", "l", "o", "n", " ", "M", "u", "s",
                  "k">>, <<"C", "y", "b", "e", "r", "t", "r", "u", "c", "k">>, <<"M",
                  "o", "d", "e", "l", " ", "Y">>, <<"E", "l", "e", "c", "t", "r", "i",
                  "c", " ", "V", "e", "h", "i", "c", "l", "e", "s">>, <<"E", "V">>,
                  <<"A", "u", "t", "o", "n", "o", "m", "o", "u", "s", " ", "D", "r",
                  "i", "v", "i", "n", "g">> >>]

\* EVERGREEN_HOOKS: the texts fallback_tweet chooses from, per category
EVERGREEN_HOOKS ==
    [c \in {CategoryOrder[i] : i \in 1..Len(CategoryOrder)} |->
        CASE c = "Arsenal" ->
               << <<"A", "r", "s", "e", "n", "a", "l", " ", "f", "a", "n", "s", " ",
                  "k", "n", "o", "w", " ", "h", "o", "p", "e", " ", "i", "s", " ", "t",
                  "h", "e", " ", "d", "e", "a", "d", "l", "i", "e", "s", "t", " ", "w",
                  "e", "a", "p", "o", "n", ".", " ", "#", "C", "O", "Y", "G">>, <<"E",
                  "v", "e", "r", "y", " ", "A", "r", "s", "e", "n", "a", "l", " ", "s",
                  "e", "a", "s", "o", "n", " ", "i", "s", " ", "a", " ", "S", "h", "a",
                  "k", "e", "s", "p", "e", "a", "r", "e", " ", "p", "l", "a", "y", ":",
                  " ", "t", "r", "a", "g", "e", "d", "y", ",", " ", "c", "o", "m", "e",
                  "d", "y", ",", " ", "m", "i", "r", "a", "c", "l", "e", ".">>, <<"S",
                  "u", "p", "p", "o", "r", "t", "i", "n", "g", " ", "A", "r", "s", "e",
                  "n", "a", "l", " ", "s", "h", "o", "u", "l", "d", " ", "c", "o", "m",
                  "e", " ", "w", "i", "t", "h", " ", "f", "r", "e", "e", " ", "t", "h",
                  "e", "r", "a", "p", "y", " ", "s", "e", "s", "s", "i", "o", "n", "s",
                  ".">> >>
          [] c = "Manchester United" ->
               << <<"M", "a", "n", " ", "U", "t", "d", ":", " ", "W", "h", "e", "r",
                  "e", " ", "e", "v", "e", "r", "y", " ", "m", "a", "t", "c", "h", " ",
                  "i", "s", " ", "a", " ", "r", "o", "l", "l", "e", "r", "c", "o", "a",
                  "s", "t", "e", "r", "!", " ", "#", "M", "U", "F", "C">>, <<"R", "e",
                  "d", " ", "D", "e", "v", "i", "l", "s", " ", "n", "e", "v", "e", "r",
                  " ", "g", "i", "v", "e", " ", "u", "p", ",", " ", "e", "v", "e", "n",
                  " ", "w", "h", "e", "n", " ", "t", "h", "e", " ", "o", "d", "d", "s",
                  " ", "a", "r", "e", " ", "g", "r", "i", "m", ".">>, <<"S", "u", "p",
                  "p", "o", "r", "t", "i", "n", "g", " ", "U", "n", "i", "t", "e", "d",
                  " ", "i", "s", " ", "a", " ", "l", "i", "f", "e", "s", "t", "y", "l",
                  "e", ",", " ", "n", "o", "t", " ", "j", "u", "s", "t", " ", "a", " ",
                  "c", "h", "o", "i", "c", "e", ".">> >>
          [] c = "EPL" ->
               << <<"P", "r", "e", "m", "i", "e", "r", " ", "L", "e", "a", "g", "u",
                  "e", ":", " ", "W", "h", "e", "r", "e", " ", "d", "r", "e", "a", "m",
                  "s", " ", "a", "r", "e", " ", "m", "a", "d", "e", " ", "a", "n", "d",
                  " ", "h", "e", "a", "r", "t", "s", " ", "a", "r", "e", " ", "b", "r",
                  "o", "k", "e", "n", ".">>, <<"E", "P", "L", " ", "w", "e", "e", "k",
                  "e", "n", "d", "s", " ", "h", "i", "t", " ", "d", "i", "f", "f", "e",
                  "r", "e", "n", "t", ".", " ", "W", "h", "o", "U+00E2", "U+20AC",
                  "U+2122", "s", " ", "y", "o", "u", "r", " ", "t", "e", "a", "m",
                  "?">>, <<"F", "o", "o", "t", "b", "a", "l", "l", "U+00E2", "U+20AC",
                  "U+2122", "s", " ", "h", "o", "m", "e", " ", "i", "s", " ", "t", "h",
                  "e", " ", "P", "r", "e", "m", "i", "e", "r", " ", "L", "e", "a", "g",
                  "u", "e", ".", " ", "#", "E", "P", "L">> >>
          [] c = "F1" ->
               << <<"I", "n", " ", "F", "1", ",", " ", "s", "p", "e", "e", "d", " ",
                  "i", "s", " ", "e", "v", "e", "r", "y", "t", "h", "i", "n", "g",
                  "U+00E2", "U+20AC", "U+201D", "e", "x", "c", "e", "p", "t", " ", "w",
                  "h", "e", "n", " ", "s", "t", "r", "a", "t", "e", "g", "y", " ", "i",
                  "s", " ", "s", "l", "o", "w", "e", "r", " ", "t", "h", "a", "n", " ",
                  "d", "i", "a", "l", "-", "u", "p", ".">>, <<"F", "o", "r", "m", "u",
                  "l", "a", " ", "1", ":", " ", "w", "h", "e", "r", "e", " ", "e", "v",
                  "e", "n", " ", "t", "h", "e", " ", "s", "a", "f", "e", "t", "y", " ",
                  "c", "a", "r", " ", "h", "a", "s", " ", "a", " ", "f", "a", "n", "b",
                  "a", "s", "e", ".">>, <<"D", "r", "i", "v", "e", "r", "s", " ", "c",
                  "h", "a", "s", "e", " ", "g", "l", "o", "r", "y", ",", " ", "t", "e",
                  "a", "m", "s", " ", "c", "h", "a", "s", "e", " ", "s", "p", "o", "n",
                  "s", "o", "r", "s", ",", " ", "f", "a", "n", "s", " ", "c", "h", "a",
                  "s", "e", " ", "s", "l", "e", "e", "p", " ", "s", "c", "h", "e", "d",
                  "u", "l", "e", "s", ".">> >>
          [] c = "MotoGP" ->
               << <<"M", "o", "t", "o", "G", "P", ":", " ", "T", "w", "o", " ", "w",
                  "h", "e", "e", "l", "s", ",", " ", "o", "n", "e", " ", "w", "i", "l",
                  "d", " ", "r", "i", "d", "e", "!", " ", "U+00F0", "U+0178", "U+00EF",
                  "U+00B8">>, <<"S", "p", "e", "e", "d", ",", " ", "s", "k", "i", "l",
                  "l", ",", " ", "a", "n", "d", " ", "s", "p", "i", "l", "l", "s",
                  "U+00E2", "U+20AC", "U+201D", "M", "o", "t", "o", "G", "P", " ", "h",
                  "a", "s", " ", "i", "t", " ", "a", "l", "l", ".">>, <<"W", "h", "o",
                  "U+00E2", "U+20AC", "U+2122", "s", " ", "y", "o", "u", "r", " ", "p",
                  "i", "c", "k", " ", "f", "o", "r", " ", "t", "h", "e", " ", "n", "e",
                  "x", "t", " ", "G", "r", "a", "n", "d", " ", "P", "r", "i", "x", "?">>
                  >>
          [] c = "Kenyan Politics" ->
               << <<"K", "e", "n", "y", "a", "U+00E2", "U+20AC", "U+2122", "s", " ",
                  "p", "o", "l", "i", "t", "i", "c", "a", "l", " ", "s", "c", "e", "n",
                  "e", ":", " ", "N", "e", "v", "e", "r", " ", "a", " ", "d", "u", "l",
                  "l", " ", "m", "o", "m", "e", "n", "t", "!", " ", "U+00F0", "U+0178",
                  "U+2021", "U+00B0", "U+00F0", "U+0178", "U+2021", "U+00AA">>, <<"F",
                  "r", "o", "m", " ", "N", "a", "i", "r", "o", "b", "i", " ", "t", "o",
                  " ", "t", "h", "e", " ", "n", "a", "t", "i", "o", "n", ",", " ", "p",
                  "o", "l", "i", "t", "i", "c", "s", " ", "s", "h", "a", "p", "e", "s",
                  " ", "K", "e", "n", "y", "a", "U+00E2", "U+20AC", "U+2122", "s", " ",
                  "f", "u", "t", "u", "r", "e", ".">>, <<"S", "t", "a", "y", " ", "w",
                  "o", "k", "e", ",", " ", "K", "e", "n", "y", "a", "U+00E2", "U+20AC",
                  "U+2122", "s", " ", "p", "o", "l", "i", "t", "i", "c", "a", "l", " ",
                  "d", "r", "a", "m", "a", " ", "n", "e", "v", "e", "r", " ", "s", "l",
                  "e", "e", "p", "s", ".">> >>
          [] c = "Kenyan Tourism" ->
               << <<"K", "e", "n", "y", "a", ":", " ", "W", "h", "e", "r", "e", " ",
                  "s", "a", "f", "a", "r", "i", "s", " ", "m", "e", "e", "t", " ", "s",
                  "t", "u", "n", "n", "i", "n", "g", " ", "s", "u", "n", "s", "e", "t",
                  "s", ".", " ", "U+00F0", "U+0178", "U+0152", "U+2026">>, <<"M", "a",
                  "g", "i", "c", "a", "l", " ", "K", "e", "n", "y", "a", " ", "c", "a",
                  "l", "l", "s", "U+00E2", "U+20AC", "U+201D", "r", "e", "a", "d", "y",
                  " ", "f", "o", "r", " ", "a", "n", " ", "a", "d", "v", "e", "n", "t",
                  "u", "r", "e", "?">>, <<"F", "r", "o", "m", " ", "M", "a", "a", "s",
                  "a", "i", " ", "M", "a", "r", "a", " ", "t", "o", " ", "M", "o", "m",
                  "b", "a", "s", "a", ",", " ", "K", "e", "n", "y", "a", "U+00E2",
                  "U+20AC", "U+2122", "s", " ", "b", "e", "a", "u", "t", "y", " ", "s",
                  "h", "i", "n", "e", "s", ".">> >>
          [] c = "World Finance" ->
               << <<"M", "a", "r", "k", "e", "t", "s", " ", "m", "o", "v", "e", ",",
                  " ", "m", "o", "n", "e", "y", " ", "t", "a", "l", "k", "s", ".", " ",
                  "W", "h", "a", "t", "U+00E2", "U+20AC", "U+2122", "s", " ", "t", "h",
                  "e", " ", "n", "e", "x", "t", " ", "b", "i", "g", " ", "t", "r", "e",
                  "n", "d", "?", " ", "U+00F0", "U+0178", "U+201C", "U+02C6">>, <<"G",
                  "l", "o", "b", "a", "l", " ", "f", "i", "n", "a", "n", "c", "e", ":",
                  " ", "W", "h", "e", "r", "e", " ", "n", "u", "m", "b", "e", "r", "s",
                  " ", "t", "e", "l", "l", " ", "e", "p", "i", "c", " ", "s", "t", "o",
                  "r", "i", "e", "s", ".">>, <<"F", "r", "o", "m", " ", "W", "a", "l",
                  "l", " ", "S", "t", "r", "e", "e", "t", " ", "t", "o", " ", "M", "a",
                  "i", "n", " ", "S", "t", "r", "e", "e", "t", ",", " ", "t", "h", "e",
                  " ", "e", "c", "o", "n", "o", "m", "y", " ", "n", "e", "v", "e", "r",
                  " ", "s", "l", "e", "e", "p", "s", ".">> >>
          [] c = "Crypto" ->
               << <<"C", "r", "y", "p", "t", "o", ":", " ", "H", "O", "D", "L", " ",
                  "o", "r", " ", "t", "r", "a", "d", "e", ",", " ", "w", "h", "a", "t",
                  "U+00E2", "U+20AC", "U+2122", "s", " ", "y", "o", "u", "r", " ", "v",
                  "i", "b", "e", "?", " ", "U+00E2", "U+201A", "U+00BF">>, <<"B", "i",
                  "t", "c", "o", "i", "n", ",", " ", "E", "t", "h", "e", "r", "e", "u",
                  "m", ",", " ", "o", "r", " ", "D", "e", "F", "i", "U+00E2", "U+20AC",
                  "U+201D", "p", "i", "c", "k", " ", "y", "o", "u", "r", " ", "c", "r",
                  "y", "p", "t", "o", " ", "a", "d", "v", "e", "n", "t", "u", "r", "e",
                  "!">>, <<"B", "l", "o", "c", "k", "c", "h", "a", "i", "n", "U+00E2",
                  "U+20AC", "U+2122", "s", " ", "c", "h", "a", "n", "g", "i", "n", "g",
                  " ", "t", "h", "e", " ", "g", "a", "m", "e", ",", " ", "o", "n", "e",
                  " ", "b", "l", "o", "c", "k", " ", "a", "t", " ", "a", " ", "t", "i",
                  "m", "e", ".">> >>
          [] c = "Cycling" ->
               << <<"C", "y", "c", "l", "i", "n", "g", ":", " ", "T", "w", "o", " ",
                  "w", "h", "e", "e", "l", "s", ",", " ", "e", "n", "d", "l", "e", "s",
                  "s", " ", "t", "h", "r", "i", "l", "l", "s", ".", " ", "U+00F0",
                  "U+0178", "U+0161", "U+00B4">>, <<"F", "r", "o", "m", " ", "T", "o",
                  "u", "r", " ", "d", "e", " ", "F", "r", "a", "n", "c", "e", " ", "t",
                  "o", " ", "l", "o", "c", "a", "l", " ", "t", "r", "a", "i", "l", "s",
                  ",", " ", "p", "e", "d", "a", "l", " ", "h", "a", "r", "d", "!">>,
                  <<"W", "h", "o", "U+00E2", "U+20AC", "U+2122", "s", " ", "r", "e",
                  "a", "d", "y", " ", "t", "o", " ", "c", "h", "a", "s", "e", " ", "t",
                  "h", "e", " ", "p", "e", "l", "o", "t", "o", "n", "?">> >>
          [] c = "Space Exploration" ->
               << <<"T", "o", " ", "t", "h", "e", " ", "s", "t", "a", "r", "s", " ",
                  "a", "n", "d", " ", "b", "e", "y", "o", "n", "d", "!", " ", "U+00F0",
                  "U+0178", "U+0161", "U+20AC", " ", "#", "S", "p", "a", "c", "e", "E",
                  "x", "p", "l", "o", "r", "a", "t", "i", "o", "n">>, <<"N", "A", "S",
                  "A", ",", " ", "S", "p", "a", "c", "e", "X", ",", " ", "o", "r", " ",
                  "E", "S", "A", "U+00E2", "U+20AC", "U+201D", "w", "h", "o", "U+00E2",
                  "U+20AC", "U+2122", "s", " ", "w", "i", "n", "n", "i", "n", "g", " ",
                  "t", "h", "e", " ", "s", "p", "a", "c", "e", " ", "r", "a", "c", "e",
                  "?">>, <<"T", "h", "e", " ", "u", "n", "i", "v", "e", "r", "s", "e",
                  " ", "i", "s", " ", "c", "a", "l", "l", "i", "n", "g", ",", " ", "a",
                  "n", "d", " ", "w", "e", "U+00E2", "U+20AC", "U+2122", "r", "e", " ",
                  "l", "i", "s", "t", "e", "n", "i", "n", "g", ".">> >>
          [] c = "Tesla" ->
               << <<"T", "e", "s", "l", "a", ":", " ", "D", "r", "i", "v", "i", "n",
                  "g", " ", "t", "h", "e", " ", "f", "u", "t", "u", "r", "e", ",", " ",
                  "o", "n", "e", " ", "E", "V", " ", "a", "t", " ", "a", " ", "t", "i",
                  "m", "e", ".", " ", "U+00E2", "U+0161", "U+00A1", "U+00EF",
                  "U+00B8">>, <<"C", "y", "b", "e", "r", "t", "r", "u", "c", "k", " ",
                  "o", "r", " ", "M", "o", "d", "e", "l", " ", "Y", "U+00E2", "U+20AC",
                  "U+201D", "p", "i", "c", "k", " ", "y", "o", "u", "r", " ", "T", "e",
                  "s", "l", "a", " ", "v", "i", "b", "e", "!">>, <<"E", "l", "o", "n",
                  "U+00E2", "U+20AC", "U+2122", "s", " ", "v", "i", "s", "i", "o", "n",
                  " ", "k", "e", "e", "p", "s", " ", "T", "e", "s", "l", "a", " ", "c",
                  "h", "a", "r", "g", "i", "n", "g", " ", "a", "h", "e", "a", "d", ".">>
                  >>]

\* generate_fallback_post: category_prefixes
category_prefixes ==
    [c \in {CategoryOrder[i] : i \in 1..Len(CategoryOrder)} |->
        CASE c = "Arsenal" ->
               << <<"A", "r", "s", "e", "n", "a", "l", " ", "n", "e", "w", "s", ":">>,
                  <<"G", "u", "n", "n", "e", "r", "s", " ", "u", "p", "d", "a", "t",
                  "e", ":">>, <<"A", "r", "s", "e", "n", "a", "l", ":">> >>
          [] c = "Manchester United" ->
               << <<"M", "a", "n", " ", "U", "t", "d", " ", "n", "e", "w", "s", ":">>,
                  <<"R", "e", "d", " ", "D", "e", "v", "i", "l", "s", " ", "u", "p",
                  "d", "a", "t", "e", ":">>, <<"M", "U", "F", "C", ":">> >>
          [] c = "EPL" ->
               << <<"P", "r", "e", "m", "i", "e", "r", " ", "L", "e", "a", "g", "u",
                  "e", ":">>, <<"E", "P", "L", " ", "u", "p", "d", "a", "t", "e", ":">>
                  >>
          [] c = "F1" ->
               << <<"F", "1", " ", "n", "e", "w", "s", ":">>, <<"F", "o", "r", "m", "u",
                  "l", "a", " ", "1", ":">> >>
          [] c = "MotoGP" ->
               << <<"M", "o", "t", "o", "G", "P", " ", "n", "e", "w", "s", ":">>, <<"G",
                  "r", "a", "n", "d", " ", "P", "r", "i", "x", " ", "u", "p", "d", "a",
                  "t", "e", ":">> >>
          [] c = "Kenyan Politics" ->
               << <<"K", "e", "n", "y", "a", ":">>, <<"P", "o", "l", "i", "t", "i", "c",
                  "s", " ", "n", "e", "w", "s", ":">> >>
          [] c = "Kenyan Tourism" ->
               << <<"K", "e", "n", "y", "a", " ", "t", "r", "a", "v", "e", "l", ":">>,
                  <<"S", "a", "f", "a", "r", "i", " ", "u", "p", "d", "a", "t", "e",
                  ":">> >>
          [] c = "World Finance" ->
               << <<"M", "a", "r", "k", "e", "t", "s", ":">>, <<"F", "i", "n", "a", "n",
                  "c", "e", ":">> >>
          [] c = "Crypto" ->
               << <<"C", "r", "y", "p", "t", "o", " ", "n", "e", "w", "s", ":">>, <<"B",
                  "l", "o", "c", "k", "c", "h", "a", "i", "n", " ", "u", "p", "d", "a",
                  "t", "e", ":">> >>
          [] c = "Cycling" ->
               << <<"C", "y", "c", "l", "i", "n", "g", " ", "n", "e", "w", "s", ":">>,
                  <<"P", "r", "o", " ", "c", "y", "c", "l", "i", "n", "g", ":">> >>
          [] c = "Space Exploration" ->
               << <<"S", "p", "a", "c", "e", " ", "n", "e", "w", "s", ":">>, <<"N", "A",
                  "S", "A", " ", "u", "p", "d", "a", "t", "e", ":">> >>
          [] c = "Tesla" ->
               << <<"T", "e", "s", "l", "a", " ", "n", "e", "w", "s", ":">>, <<"E", "V",
                  " ", "u", "p", "d", "a", "t", "e", ":">> >>]

\* the name of a category as text
CategoryText ==
    [c \in {CategoryOrder[i] : i \in 1..Len(CategoryOrder)} |->
        CASE c = "Arsenal" -> <<"A", "r", "s", "e", "n", "a", "l">>
          [] c = "Manchester United" -> <<"M", "a", "n", "c", "h", "e", "s", "t", "e", "r", " ", "U", "n", "i", "t", "e", "d">>
          [] c = "EPL" -> <<"E", "P", "L">>
          [] c = "F1" -> <<"F", "1">>
          [] c = "MotoGP" -> <<"M", "o", "t", "o", "G", "P">>
          [] c = "Kenyan Politics" -> <<"K", "e", "n", "y", "a", "n", " ", "P", "o", "l", "i", "t", "i", "c", "s">>
          [] c = "Kenyan Tourism" -> <<"K", "e", "n", "y", "a", "n", " ", "T", "o", "u", "r", "i", "s", "m">>
          [] c = "World Finance" -> <<"W", "o", "r", "l", "d", " ", "F", "i", "n", "a", "n", "c", "e">>
          [] c = "Crypto" -> <<"C", "r", "y", "p", "t", "o">>
          [] c = "Cycling" -> <<"C", "y", "c", "l", "i", "n", "g">>
          [] c = "Space Exploration" -> <<"S", "p", "a", "c", "e", " ", "E", "x", "p", "l", "o", "r", "a", "t", "i", "o", "n">>
          [] c = "Tesla" -> <<"T", "e", "s", "l", "a">>]

\* None, and a value that is not None
None == <<>>
Some(v) == <<v>>

\* the truth value Python gives an optional string: None and "" are false
Truthy(opt) == opt # None /\ opt[1] # <<>>

\* the text "Trending " of the two f-strings
TrendingText == <<"T", "r", "e", "n", "d", "i", "n", "g", " ">>

\* title.split(":")[0]
BeforeColon(s) ==
    IF \E i \in 1..Len(s) : s[i] = ":"
    THEN SubSeq(s, 1, (CHOOSE i \in 1..Len(s) :
                          s[i] = ":" /\ \A j \in 1..(i - 1) : s[j] # ":") - 1)
    ELSE s

\* tag.replace("#", "")
RemoveHash(tag) ==
    LET NotHash(c) == c # "#"
    IN  SelectSeq(tag, NotHash)

\* " ".join(words)
RECURSIVE JoinWithSpace(_)
JoinWithSpace(words) ==
    IF words = <<>> THEN <<>>
    ELSE IF Len(words) = 1 THEN words[1]
    ELSE words[1] \o <<" ">> \o JoinWithSpace(Tail(words))

\* text[:n]
Take(text, n) == SubSeq(text, 1, Min(n, Len(text)))

(***************************************************************************)
(* validate_tweet_length.                                                  *)
(***************************************************************************)
\* the cut made at the limit itself
validate_tweet_length_at_limit(text) ==
    IF Len(text) > 280 THEN Take(text, 280) \o <<".", ".", ".">> ELSE text

validate_tweet_length(text) ==
    IF Len(text) > 280 THEN Take(text, 277) \o <<".", ".", ".">> ELSE text

(***************************************************************************)
(* generate_fallback_post: the template.  `prefix` is the prefix           *)
(* random.choice drew from category_prefixes[category].                    *)
(***************************************************************************)
\* the first 80 characters whether the title has a colon or not
MainPartNoSplit(title) == Take(title, 80)

\* main_part
MainPart(title) ==
    IF \E i \in 1..Len(title) : title[i] = ":"
    THEN Strip(BeforeColon(title))
    ELSE Take(title, 80)

generate_fallback_post(title, cat, trend_term, prefix) ==
    LET plain == prefix \o <<" ">> \o MainPart(title)
        tweet_text ==
            IF Truthy(trend_term)
            THEN TrendingText \o trend_term[1] \o <<" ", "-", " ">> \o plain
            ELSE plain
        tags == CATEGORY_HASHTAGS[cat]
    IN  validate_tweet_length(
            IF tags # <<>> /\ Len(tweet_text) < 200
            THEN tweet_text \o <<" ">> \o tags[1]
            ELSE tweet_text)

(***************************************************************************)
(* generate_content_aware_post.  What a chat.completions.create call does  *)
(* is the environment's: it raises, or it returns a message whose content  *)
(* is a text.  llm1 is the gpt-4o-mini call, llm2 the gpt-3.5-turbo call   *)
(* made in the except clause.                                              *)
(***************************************************************************)
LlmRaises == [kind |-> "raises"]
LlmReturns(content) == [kind |-> "returns", content |-> content]

\* the space of a whole tweet
TagBudgetWide == 240 + 40

\* remaining_space = 240 - len(gpt_text)
TagBudget == 240

\* the loop over tags[:3]: the tags selected, given the ones selected so far and
\* the space that remains
RECURSIVE SelectTags(_, _, _, _, _)
SelectTags(tags, gpt_text, title, selected_tags, remaining_space) ==
    IF tags = <<>> THEN selected_tags
    ELSE LET tag == Head(tags)
             word == Lower(RemoveHash(tag))
             take == /\ Contains(Lower(gpt_text), word) \/ Contains(Lower(title), word)
                     /\ Len(tag) + 1 <= remaining_space
                     /\ Len(selected_tags) < 2
         IN  IF take
             THEN SelectTags(Tail(tags), gpt_text, title, Append(selected_tags, tag),
                             remaining_space - (Len(tag) + 1))
             ELSE SelectTags(Tail(tags), gpt_text, title, selected_tags,
                             remaining_space)

\* the try block after the gpt-4o-mini call returned `content`
ContentAwareText(content, title, cat, trend_term) ==
    LET stripped == Strip(content)
        gpt_text ==
            IF Truthy(trend_term) /\ Len(stripped) < 180
            THEN TrendingText \o trend_term[1] \o <<":", " ">> \o stripped
            ELSE stripped
        tags == CATEGORY_HASHTAGS[cat]
        selected_tags ==
            IF tags # <<>>
            THEN SelectTags(Take(tags, 3), gpt_text, title, <<>>,
                            TagBudget - Len(gpt_text))
            ELSE <<>>
    IN  validate_tweet_length(
            IF selected_tags # <<>>
            THEN gpt_text \o <<" ">> \o JoinWithSpace(selected_tags)
            ELSE gpt_text)

generate_content_aware_post(title, cat, article_url, trend_term, llm1, llm2, prefix) ==
    IF llm1.kind = "returns"
    THEN [kind |-> "returns", text |-> ContentAwareText(llm1.content, title, cat,
                                                         trend_term)]
    ELSE IF llm2.kind = "returns"
    THEN [kind |-> "returns", text |-> validate_tweet_length(Strip(llm2.content))]
    ELSE [kind |-> "returns", text |-> generate_fallback_post(title, cat,
                                                              trend_term, prefix)]

(***************************************************************************)
(* fallback_tweet.  `tweet` is the text random.choice drew from            *)
(* EVERGREEN_HOOKS[category], `additional_tags` what random.sample drew    *)
(* from the hashtags of the category.                                      *)
(***************************************************************************)
fallback_tweet(cat, tweet, additional_tags) ==
    IF cat \in DOMAIN EVERGREEN_HOOKS
    THEN validate_tweet_length(
            IF CATEGORY_HASHTAGS[cat] # <<>>
            THEN tweet \o <<" ">> \o JoinWithSpace(additional_tags)
            ELSE tweet)
    ELSE validate_tweet_length(
            <<"N", "o", " ", "f", "r", "e", "s", "h", " ", "n", "e", "w", "s", " ", "t",
              "o", "d", "a", "y", " ", "f", "o", "r", " ">>
                \o CategoryText[cat]
                \o <<",", " ", "b", "u", "t", " ", "t", "h", "e", " ", "p", "a", "s",
                     "s", "i", "o", "n", " ", "n", "e", "v", "e",
                     "r", " ", "s", "t", "o", "p", "s", "!">>)

\* random.sample(tags, min(2, len(tags)))
TagSamples(tags) ==
    LET k == Min(2, Len(tags))
    IN  {[i \in 1..k |-> tags[s[i]]] :
            s \in {t \in [1..k -> 1..Len(tags)] : \A i, j \in 1..k : i # j => t[i] # t[j]}}

\* post_dynamic_update: tweet_text = f"{post_text}\n\n{article['url']}"
ArticleTweetText(post_text, url) == post_text \o <<NL, NL>> \o url

\* FALLBACK_KEYWORDS without an entry for Arsenal
ConfigurationKeysShort ==
    [RSS_FEEDS |->
         {"Arsenal", "Manchester United", "EPL", "F1", "MotoGP", "Kenyan Politics", "Kenyan Tourism", "World Finance", "Crypto", "Cycling",
          "Space Exploration", "Tesla"},
     CATEGORY_HASHTAGS |->
         {"Arsenal", "Manchester United", "EPL", "F1", "MotoGP", "Kenyan Politics", "Kenyan Tourism", "World Finance", "Crypto", "Cycling",
          "Space Exploration", "Tesla"},
     TREND_KEYWORDS |->
         {"Arsenal", "Manchester United", "EPL", "F1", "MotoGP", "Kenyan Politics", "Kenyan Tourism", "World Finance", "Crypto", "Cycling",
          "Space Exploration", "Tesla"},
     FALLBACK_KEYWORDS |->
         {"Manchester United", "EPL", "F1", "MotoGP", "Kenyan Politics", "Kenyan Tourism", "World Finance", "Crypto", "Cycling", "Space Exploration",
          "Tesla"}]

\* the keys of the four dictionaries a category is looked up in
ConfigurationKeys ==
    [RSS_FEEDS |->
         {"Arsenal", "Manchester United", "EPL", "F1", "MotoGP", "Kenyan Politics", "Kenyan Tourism", "World Finance", "Crypto", "Cycling",
          "Space Exploration", "Tesla"},
     CATEGORY_HASHTAGS |->
         {"Arsenal", "Manchester United", "EPL", "F1", "MotoGP", "Kenyan Politics", "Kenyan Tourism", "World Finance", "Crypto", "Cycling",
          "Space Exploration", "Tesla"},
     TREND_KEYWORDS |->
         {"Arsenal", "Manchester United", "EPL", "F1", "MotoGP", "Kenyan Politics", "Kenyan Tourism", "World Finance", "Crypto", "Cycling",
          "Space Exploration", "Tesla"},
     FALLBACK_KEYWORDS |->
         {"Arsenal", "Manchester United", "EPL", "F1", "MotoGP", "Kenyan Politics", "Kenyan Tourism", "World Finance", "Crypto", "Cycling",
          "Space Exploration", "Tesla"}]

(***************************************************************************)
(* detect_category_from_trends.  `category` is what random.choice drew     *)
(* first; what twitter_api.get_place_trends does is the environment's: it  *)
(* raises, or it returns the trends; `redrawn` is what random.choice draws *)
(* in the except clause.                                                   *)
(***************************************************************************)
LookupRaises == [kind |-> "raises"]
LookupReturns(trends) == [kind |-> "returns", trends |-> trends]

\* any(kw.lower() in trend.lower() for kw in keywords)
TrendMatches(trend, cat) ==
    \E k \in 1..Len(TREND_KEYWORDS[cat]) :
        Contains(Lower(trend), Lower(TREND_KEYWORDS[cat][k]))

\* the loops nested the other way round: categories outside, trends inside
FirstTrendMatchByCategory(trends) ==
    LET hits == {h \in (1..Len(trends)) \X (1..Len(CategoryOrder)) :
                    TrendMatches(trends[h[1]], CategoryOrder[h[2]])}
    IN  IF hits = {} THEN None
        ELSE LET first == CHOOSE h \in hits :
                              \A g \in hits :
                                  h[2] < g[2] \/ (h[2] = g[2] /\ h[1] <= g[1])
             IN  Some([cat |-> CategoryOrder[first[2]], trend |-> trends[first[1]]])

\* the first (trend, cat) of the two nested loops with a match, or None
FirstTrendMatch(trends) ==
    LET hits == {h \in (1..Len(trends)) \X (1..Len(CategoryOrder)) :
                    TrendMatches(trends[h[1]], CategoryOrder[h[2]])}
    IN  IF hits = {} THEN None
        ELSE LET first == CHOOSE h \in hits :
                              \A g \in hits :
                                  h[1] < g[1] \/ (h[1] = g[1] /\ h[2] <= g[2])
             IN  Some([cat |-> CategoryOrder[first[2]], trend |-> trends[first[1]]])

detect_category_from_trends(cat, lookup, redrawn) ==
    IF lookup.kind = "raises"
    THEN [category |-> redrawn, trend_term |-> None]
    ELSE LET match == FirstTrendMatch(lookup.trends)
         IN  IF match # None
             THEN [category |-> match[1].cat, trend_term |-> Some(match[1].trend)]
             ELSE [category |-> cat, trend_term |-> None]

(***************************************************************************)
(* The functions that build and classify, called on their own with inputs  *)
(* of every kind: texts around the limits of 80, 180, 200, 240 and 280     *)
(* characters, titles with and without a colon, every outcome of the       *)
(* language model and of the trend lookup, timestamps around the window.   *)
(* A behaviour is one call.                                                *)
(***************************************************************************)
\* longest text a language model or a feed returns
MaxTextLen == 300

\* a text of n characters in which every position can be told from its neighbours
Text(n) == [i \in 1..n |-> <<"0", "1", "2", "3", "4", "5", "6", "7", "8", "9">>[((i - 1) % 10) + 1]]

ComposeTitles ==
    { <<"V", "e", "r", "s", "t", "a", "p", "p", "e", "n", " ", "w", "i", "n", "s">>,
      <<"A", "r", "s", "e", "n", "a", "l", ":", " ", "S", "a", "k", "a", " ", "s",
            "i", "g", "n", "s", " ", "n", "e", "w", " ", "d", "e", "a", "l">>,
      <<" ", "T", "r", "a", "n", "s", "f", "e", "r", " ", "l", "a", "t", "e", "s",
            "t", " ", ":", " ", "S", "a", "k", "a", " ", "s", "t", "a", "y",
            "s">>,
      Text(100),
      Text(MaxTextLen) \o <<":", " ", "x">> }

ComposeUrls ==
    { <<"h", "t", "t", "p", ":", "/", "/", "x", "/", "1">>,
      <<"h", "t", "t", "p", ":", "/", "/", "x", "/">> \o Text(60) }

TrendTerms == {None, Some(<<"S", "a", "k", "a">>)}

LlmContents ==
    { <<"M", "a", "x", " ", "d", "o", "e", "s", " ", "i", "t", " ", "a", "g", "a",
            "i", "n", "!">>,
      <<" ", " ", "A", "r", "s", "e", "n", "a", "l", " ", "a", "n", "d", " ", "S",
            "a", "k", "a", " ", "d", "o", " ", "i", "t", " ", "a", "g", "a",
            "i", "n", "!", " ", NL>> }
    \cup {Text(n) : n \in {179, 180, 239, 240, 277, 280, 281, MaxTextLen}}
    \cup {<<"F", "o", "r", "m", "u", "l", "a", "1", " ", "a", "n", "d", " ", "M", "o", "t", "o", "r", "s", "p", "o", "r", "t", ":", " ", "F", "1", " ", "i", "s", " ", "b", "a", "c", "k">>,
          <<"F", "1", " ", "a", "n", "d", " ", "A", "r", "s", "e", "n", "a", "l", ":", " ">> \o Text(200)}

Llm1Outcomes == {LlmRaises} \cup {LlmReturns(content) : content \in LlmContents}

Llm2Outcomes ==
    {LlmRaises, LlmReturns(Text(MaxTextLen)),
     LlmReturns(<<"M", "a", "x", " ", "d", "o", "e", "s", " ", "i", "t", " ", "a", "g", "a",
            "i", "n", "!">>)}

LlmNotCalled == [kind |-> "not_called"]

TrendLists ==
    { <<>>,
      << <<"W", "e", "a", "t", "h", "e", "r">> >>,
      << <<"W", "e", "a", "t", "h", "e", "r">>,
         <<"S", "a", "k", "a", " ", "g", "o", "a", "l">> >>,
      << <<"m", "o", "n", "z", "a", " ", "f", "1">>,
         <<"S", "a", "k", "a">> >>,
      << <<"#", "K", "E", "N", "Y", "A">> >>,
      << <<"C", "h", "e", "l", "s", "e", "a", " ", "v", " ", "A", "R", "S", "E", "N", "A", "L">>,
         <<"M", "a", "n", " ", "U", "t", "d">> >> }

\* datetime.now(pytz.UTC) at the calls of is_fresh, and the ages of the articles
FreshNows == {0, 240, 3000}
FreshAges == {-2, 0, 2760, 2879, 2880, 2881, 3000}

\* validate_tweet_length(text)
CallValidateTweetLength ==
    /\ call = NoCall
    /\ \E n \in 0..MaxTextLen :
          call' = [fn |-> "validate_tweet_length", text |-> Text(n),
                   ret |-> validate_tweet_length(Text(n))]
    /\ UNCHANGED <<store_vars, clock_vars, pc, job_vars, collect_vars, select_vars,
                   tweet_vars, hist_vars, run_hist>>

(***************************************************************************)
(* post_dynamic_update for a chosen article: generate_content_aware_post,  *)
(* the URL appended, and in post_tweet validate_tweet_length before the    *)
(* text is handed to create_tweet.                                         *)
(***************************************************************************)
ArticleText ==
    /\ call = NoCall
    /\ \E title \in ComposeTitles, cat \in Categories, url \in ComposeUrls,
          trend_term \in TrendTerms, llm1 \in Llm1Outcomes :
        \E llm2 \in IF llm1.kind = "raises" THEN Llm2Outcomes ELSE {LlmNotCalled} :
        \E p \in IF llm1.kind = "raises" /\ llm2.kind = "raises"
                 THEN 1..Len(category_prefixes[cat]) ELSE {1} :
        \E post \in {generate_content_aware_post(title, cat, url, trend_term, llm1,
                                                  llm2, category_prefixes[cat][p])} :
        \E tweet_text \in {IF post.kind = "returns"
                            THEN Some(ArticleTweetText(post.text, url)) ELSE None} :
            call' = [fn |-> "article", title |-> title, category |-> cat,
                     url |-> url, trend_term |-> trend_term, llm1 |-> llm1,
                     llm2 |-> llm2, prefix |-> category_prefixes[cat][p],
                     post |-> post, tweet_text |-> tweet_text,
                     text |-> IF tweet_text # None
                              THEN Some(validate_tweet_length(tweet_text[1]))
                              ELSE None]
    /\ UNCHANGED <<store_vars, clock_vars, pc, job_vars, collect_vars, select_vars,
                   tweet_vars, hist_vars, run_hist>>

(***************************************************************************)
(* post_dynamic_update without a candidate: fallback_tweet, and in         *)
(* post_tweet validate_tweet_length before the text is handed to           *)
(* create_tweet.                                                           *)
(***************************************************************************)
FallbackText ==
    /\ call = NoCall
    /\ \E cat \in Categories :
        \E h \in 1..Len(EVERGREEN_HOOKS[cat]),
           additional_tags \in TagSamples(CATEGORY_HASHTAGS[cat]) :
        \E tweet \in {fallback_tweet(cat, EVERGREEN_HOOKS[cat][h], additional_tags)} :
            call' = [fn |-> "fallback", category |-> cat,
                     hook |-> EVERGREEN_HOOKS[cat][h],
                     additional_tags |-> additional_tags, tweet |-> tweet,
                     text |-> validate_tweet_length(tweet)]
    /\ UNCHANGED <<store_vars, clock_vars, pc, job_vars, collect_vars, select_vars,
                   tweet_vars, hist_vars, run_hist>>

\* is_fresh(article) at some time, for an article of some age or without a timestamp
CallIsFresh ==
    /\ call = NoCall
    /\ \E t \in FreshNows :
        \E published_parsed \in {None} \cup {Some(t - age) : age \in FreshAges} :
            /\ now' = t
            /\ call' = [fn |-> "is_fresh", published_parsed |-> published_parsed,
                        ret |-> is_fresh([url |-> <<"a">>, title |-> <<"a">>,
                                          published_parsed |-> published_parsed])']
    /\ UNCHANGED <<store_vars, last_post_time, last_success, pc, job_vars, collect_vars,
                   select_vars, tweet_vars, hist_vars, run_hist>>

\* detect_category_from_trends()
CallDetectCategory ==
    /\ call = NoCall
    /\ \E cat \in Categories :
        \E lookup \in {LookupRaises} \cup {LookupReturns(trends) : trends \in TrendLists} :
        \E redrawn \in IF lookup.kind = "raises" THEN Categories ELSE {cat} :
            call' = [fn |-> "detect_category_from_trends", category |-> cat,
                     lookup |-> lookup,
                     ret |-> detect_category_from_trends(cat, lookup, redrawn)]
    /\ UNCHANGED <<store_vars, clock_vars, pc, job_vars, collect_vars, select_vars,
                   tweet_vars, hist_vars, run_hist>>

\* run_dynamic_job after the primary category failed: the backup categories it tries
CallBackupCategories ==
    /\ call = NoCall
    /\ \E cat \in Categories :
        \E backup_categories \in BackupChoices(cat) :
            call' = [fn |-> "backup_categories", category |-> cat,
                     ret |-> backup_categories]
    /\ UNCHANGED <<store_vars, clock_vars, pc, job_vars, collect_vars, select_vars,
                   tweet_vars, hist_vars, run_hist>>

CallNext ==
    \/ CallValidateTweetLength
    \/ ArticleText
    \/ FallbackText
    \/ CallIsFresh
    \/ CallDetectCategory
    \/ CallBackupCategories

CallSpec == Init /\ [][CallNext]_vars

(***************************************************************************)
(* Properties.                                                             *)
(***************************************************************************)
\* post_tweet has been called for an article of target_articles and the run has not
\* yet gone past its return
ArticleSubmitted == pt_ctx = "article" /\ pc \in {"create_tweet", "post_return"}

ChosenArticle == Article(target_articles[idx])

NormalizedTitle(title) == Strip(Lower(title))

\* the same URL, or the same normalized title
SameArticle(a, b) ==
    Strip(a.url) = Strip(b.url) \/ NormalizedTitle(a.title) = NormalizedTitle(b.title)

IsRecorded(id) == \E r \in recorded : SameArticle(Article(id), Article(r))

(***************************************************************************)
(* C1.  Once an article has been published and recorded, no article with   *)
(* the same URL or the same normalized title is submitted for publishing   *)
(* again, in any later selection of any run; when every article of the     *)
(* list is such an article, the selection is on the fallback path, past    *)
(* the end of the list.                                                    *)
(***************************************************************************)
C1_NoRepublish ==
    /\ ArticleSubmitted => ~IsRecorded(target_articles[idx])
    /\ (/\ pc \in {"create_tweet", "post_return"}
        /\ \A i \in 1..Len(target_articles) : IsRecorded(target_articles[i]))
         => pt_ctx = "fallback" /\ idx > Len(target_articles)

\* a later run's selection over a list of recorded articles only posts the fallback
C1_Witness ==
    /\ pc = "create_tweet"
    /\ pt_ctx = "fallback"
    /\ runs = 2
    /\ target_articles # <<>>
    /\ \A i \in 1..Len(target_articles) : IsRecorded(target_articles[i])

(***************************************************************************)
(* C2.  has_been_posted(u) is true if and only if u, trimmed, is exactly   *)
(* equal to a URL recorded earlier; it is false for a URL that is only a   *)
(* prefix or substring of a recorded one.  (Stated for the URLs that are   *)
(* not empty after trimming.)                                              *)
(***************************************************************************)
C2_ExactUrlMatch ==
    \A u \in UrlInputs :
        Strip(u) # <<>> =>
            (has_been_posted(u)
                <=> \E k \in 1..Len(rec_urls) : Strip(rec_urls[k]) = Strip(u))

(***************************************************************************)
(* C3.  Titles with the same lower-cased, trimmed text have the same       *)
(* content hash; has_similar_content_posted(t) is true exactly when a      *)
(* title with the same lower-cased, trimmed text has been recorded, and    *)
(* false for every title while the hash file is missing.                   *)
(***************************************************************************)
C3_SimilarTitles ==
    /\ \A t1, t2 \in TitleInputs :
           NormalizedTitle(t1) = NormalizedTitle(t2)
               => get_content_hash(t1) = get_content_hash(t2)
    /\ \A t \in TitleInputs :
           has_similar_content_posted(t)
               <=> \E k \in 1..Len(rec_titles) :
                       NormalizedTitle(rec_titles[k]) = NormalizedTitle(t)
    /\ ~hash_log.exists => \A t \in TitleInputs : ~has_similar_content_posted(t)

\* a title is found after another spelling of it was recorded, a different one is not
C3_Witness ==
    /\ rec_titles = << <<"A", " ">> >>
    /\ has_similar_content_posted(<<"a">>)
    /\ ~has_similar_content_posted(<<"a", "a">>)

(***************************************************************************)
(* C4.  The dedup store is append-only: no step of any run removes a line  *)
(* of posted_links.txt or of posted_content_hashes.txt, and a URL or title *)
(* that has_been_posted / has_similar_content_posted reports stays         *)
(* reported.  (The two answers depend on the two files only, so the steps  *)
(* that change a file are the ones to look at.)                            *)
(***************************************************************************)
C4_AppendOnly ==
    [][<<posted_log, hash_log>>' # <<posted_log, hash_log>> =>
        /\ Lines(posted_log.content) \subseteq Lines(posted_log'.content)
        /\ Lines(hash_log.content) \subseteq Lines(hash_log'.content)
        /\ posted_log.exists => posted_log'.exists
        /\ hash_log.exists => hash_log'.exists
        /\ \A a \in ArticleIds :
             /\ has_been_posted(Article(a).url) => has_been_posted(Article(a).url)'
             /\ has_similar_content_posted(Article(a).title)
                  => SimilarIn(hash_log', Article(a).title)]_vars

\* a second article has been recorded after a first one
C4_Witness ==
    /\ Cardinality(Lines(posted_log.content)) = 2
    /\ Cardinality(Lines(hash_log.content)) = 2

(***************************************************************************)
(* C5.  Every line of the two log files is the URL, or the content hash,   *)
(* of an article whose post_tweet call returned True; and a step changes   *)
(* a log file only on the return of a successful post_tweet call for an    *)
(* article, so a failed publish, a fallback tweet and a skipped article    *)
(* leave both files as they are.                                           *)
(***************************************************************************)
C5_RecordOnlyAfterSuccess ==
    /\ [](/\ Lines(posted_log.content) \subseteq {Strip(Article(a).url) : a \in tweeted}
          /\ Lines(hash_log.content)
               \subseteq {get_content_hash(Article(a).title) : a \in tweeted})
    /\ [][<<posted_log, hash_log>>' # <<posted_log, hash_log>>
            => /\ pc = "post_return"
               /\ pt_ctx = "article"
               /\ pt_result
               /\ last_outcome.kind = "ok"
               /\ target_articles[idx] \in tweeted]_vars

\* an article was recorded, and a later fallback tweet was published without a record
C5_Witness ==
    /\ pc = "post_return"
    /\ pt_ctx = "fallback"
    /\ pt_result
    /\ Cardinality(Lines(posted_log.content)) = 1
    /\ Cardinality(Lines(hash_log.content)) = 1

(***************************************************************************)
(* C6.  An article submitted for publishing has no recorded URL, no        *)
(* recorded title fingerprint, and passed validate_url.                    *)
(***************************************************************************)
C6_ChosenIsUsable ==
    ArticleSubmitted =>
        /\ ~has_been_posted(ChosenArticle.url)
        /\ ~has_similar_content_posted(ChosenArticle.title)
        /\ url_alive

\* candidates [dead unposted, live unposted]: the second one is submitted
C6_Witness ==
    /\ pc = "create_tweet"
    /\ pt_ctx = "article"
    /\ Len(target_articles) = 2
    /\ idx = 2
    /\ dead_seen
    /\ ~AlreadyPosted(Article(target_articles[1]))

(***************************************************************************)
(* C7.  Every create_tweet call, and so every successful one, is made at   *)
(* least 120 minutes after the latest successful create_tweet call of the  *)
(* process.                                                                *)
(***************************************************************************)
C7_MinimumInterval ==
    pc = "create_tweet" =>
        \/ last_success = <<>>
        \/ now - last_success[1] >= 240

\* a retry, after a sleep, in a run that follows a successful publish
C7_Witness ==
    /\ pc = "create_tweet"
    /\ last_success # <<>>
    /\ attempt >= 1

(***************************************************************************)
(* C8.  can_post_now is true if and only if the process has published      *)
(* nothing yet or at least 120 minutes have passed since its latest        *)
(* successful publish: false 1 minute after it, true exactly 120 minutes   *)
(* after it and 121 minutes after it.                                      *)
(***************************************************************************)
C8_CanPostNow ==
    /\ can_post_now <=> (last_success = <<>> \/ now - last_success[1] >= 240)
    /\ last_success # <<>> =>
        /\ now = last_success[1] + 2 => ~can_post_now
        /\ now = last_success[1] + 240 => can_post_now
        /\ now = last_success[1] + 242 => can_post_now

\* post_tweet passed the gate exactly 120 minutes after the latest publish
C8_Witness ==
    /\ pc = "create_tweet"
    /\ calls = 0
    /\ last_success # <<>>
    /\ now = last_success[1] + 240

(***************************************************************************)
(* C9.  One post_tweet invocation calls create_tweet at most 3 times: it   *)
(* goes on to another call after a rate-limit or other error that is not   *)
(* the third, and returns False once 3 calls have failed.                  *)
(***************************************************************************)
C9_AtMostThreeCalls ==
    /\ [](/\ calls <= 3
          /\ (pc = "post_return" /\ calls = 3 /\ last_outcome.kind = "error")
               => pt_result = FALSE)
    /\ [][(/\ pc = "create_tweet"
           /\ calls' = calls + 1
           /\ last_outcome'.kind = "error"
           /\ last_outcome'.msg # DuplicateMessage)
            => IF calls' < 3
               THEN pc' = "create_tweet"
               ELSE pc' = "post_return" /\ pt_result' = FALSE]_vars

\* three calls failed, the third on a rate limit, and post_tweet returned False
C9_Witness ==
    /\ pc = "post_return"
    /\ calls = 3
    /\ last_outcome = Raised(RateLimitMessage)
    /\ pt_result = FALSE

(***************************************************************************)
(* C10.  A create_tweet call that raises a duplicate-content error ends    *)
(* the post_tweet invocation at once: it returns False, with no sleep, no  *)
(* further call and last_post_time as it was.                              *)
(***************************************************************************)
C10_DuplicateAborts ==
    [][(/\ pc = "create_tweet"
        /\ calls' = calls + 1
        /\ last_outcome' = Raised(DuplicateMessage))
         => /\ pc' = "post_return"
            /\ pt_result' = FALSE
            /\ now' = now
            /\ last_post_time' = last_post_time
            /\ UNCHANGED store_vars]_vars

\* the duplicate error came on the second attempt
C10_Witness ==
    /\ pc = "post_return"
    /\ calls = 2
    /\ last_outcome = Raised(DuplicateMessage)
    /\ pt_result = FALSE

(***************************************************************************)
(* C11.  One run of run_dynamic_job gives post_dynamic_update at most 3    *)
(* categories, all different: the primary one and, after it failed, at     *)
(* most 2 further ones.  A further category starts only when the category  *)
(* before it returned failure, a success ends the run, and a run has at    *)
(* most one successful create_tweet call.                                  *)
(***************************************************************************)
C11_BackupBudget ==
    /\ [](/\ Len(attempted) <= 1 + 2
          /\ \A i, j \in 1..Len(attempted) : i # j => attempted[i] # attempted[j]
          /\ primary <=> Len(attempted) <= 1
          /\ pc # "idle" => category = attempted[Len(attempted)]
          /\ run_publishes <= 1)
    /\ [][(Len(attempted') > Len(attempted) /\ attempted # <<>>)
            => /\ pc = "post_return"
               /\ pt_ctx = "fallback"
               /\ ~pt_result
               /\ run_publishes = 0
               /\ Len(attempted') = Len(attempted) + 1]_vars
    /\ [][(pc = "post_return" /\ pt_result) => pc' = "idle"]_vars

\* the second backup category, the third of the run, published
C11_Witness ==
    /\ Len(attempted) = 3
    /\ pc = "post_return"
    /\ pt_result
    /\ run_publishes = 1

(***************************************************************************)
(* C12.  No exception leaves run_dynamic_job: a run in which a read or a   *)
(* write of a log file raised ends in the except clause, the process is    *)
(* back in the scheduler's loop, and the next tick can start a run.        *)
(***************************************************************************)
C12_NeverRaises ==
    /\ pc # "crashed"
    /\ job_outcome \in {"none", "running", "completed", "caught"}
    /\ job_outcome \in {"completed", "caught"} => pc = "idle"
    /\ (pc = "idle" /\ runs < MaxRuns) => ENABLED RunDynamicJob

\* a run after one in which a log write raised once the tweet was out
C12_Witness ==
    /\ runs = 2
    /\ pc = "create_tweet"
    /\ tweeted \ recorded # {}

(***************************************************************************)
(* C16.  In the primary pass get_articles_for_category fetches the feeds   *)
(* of the category in the order of RSS_FEEDS and stops at the first one    *)
(* that returns an article: every feed fetched before it returned nothing, *)
(* the articles are the entries of that feed in their order, and no feed   *)
(* after it is fetched.                                                    *)
(***************************************************************************)
C16_StopAtFirstFeed ==
    LET n == Len(fetch_log)
    IN  /\ (pc = "collect" /\ c_pass = 0) =>
              /\ c_feed = n + 1
              /\ articles = <<>>
              /\ \A i \in 1..n : fetch_log[i] = [pass |-> 0, feed |-> i, entries |-> <<>>]
        /\ (pc \in {"select", "create_tweet", "post_return"} /\ c_pass = 0) =>
              /\ n >= 1
              /\ \A i \in 1..(n - 1) :
                     fetch_log[i] = [pass |-> 0, feed |-> i, entries |-> <<>>]
              /\ fetch_log[n].pass = 0
              /\ fetch_log[n].feed = n
              /\ fetch_log[n].entries # <<>>
              /\ articles = fetch_log[n].entries
              /\ articles \in FetchResults(category, n)

\* the first feed returned two entries and the second feed was not fetched
C16_Witness ==
    /\ pc = "select"
    /\ c_pass = 0
    /\ Len(fetch_log) = 1
    /\ NumFeeds(category) = 2
    /\ Len(articles) = 2

(***************************************************************************)
(* C17.  One selection hands at most one article to post_tweet: after the  *)
(* first unposted article with a live URL, no later article of the list is *)
(* composed or submitted, whatever post_tweet returned for the first.      *)
(***************************************************************************)
C17_FirstMatchWins == submitted <= 1

(***************************************************************************)
(* C18.  When the primary pass found nothing, the articles a fallback      *)
(* keyword pass returns are the entries of exactly one feed: the pass      *)
(* stops at the first feed that returns an article.                        *)
(***************************************************************************)
C18_FallbackStopsAtFirstFeed ==
    LET n == Len(fetch_log)
    IN  (pc \in {"select", "create_tweet", "post_return"} /\ c_pass >= 1
            /\ articles # <<>>) =>
            /\ articles = fetch_log[n].entries
            /\ \A i \in 1..(n - 1) : fetch_log[i].entries = <<>>

(***************************************************************************)
(* C19.  The processing of the primary category ends the run only by a     *)
(* successful publish: when it fails, by a return of False or by an        *)
(* exception, the run goes on with an alternate category.                  *)
(***************************************************************************)
C19_FailureRetriesAlternate ==
    [][(primary /\ pc # "idle" /\ pc' = "idle")
         => (pc = "post_return" /\ pt_result)]_vars

(***************************************************************************)
(* C13.  validate_tweet_length returns a text of at most 280 characters    *)
(* for a text of any length: the text itself when it has at most 280       *)
(* characters, else its first 277 characters and "...".  The text          *)
(* generate_content_aware_post returns (from the language model or from    *)
(* the template), the text fallback_tweet returns, and the text post_tweet *)
(* hands to create_tweet have at most 280 characters.                      *)
(***************************************************************************)
C13_TweetLength ==
    /\ call.fn = "validate_tweet_length" =>
          /\ Len(call.ret) <= 280
          /\ Len(call.text) <= 280 => call.ret = call.text
          /\ Len(call.text) > 280 =>
                /\ Len(call.ret) = 280
                /\ \A i \in 1..277 : call.ret[i] = call.text[i]
                /\ \A i \in 278..280 : call.ret[i] = "."
    /\ call.fn = "article" =>
          /\ call.post.kind = "returns" => Len(call.post.text) <= 280
          /\ call.text # None => Len(call.text[1]) <= 280
    /\ call.fn = "fallback" =>
          /\ Len(call.tweet) <= 280
          /\ Len(call.text) <= 280

\* a composed text of 280 characters: with the URL it is cut in post_tweet
C13_Witness ==
    /\ call.fn = "article"
    /\ call.post.kind = "returns"
    /\ Len(call.post.text) = 280
    /\ Len(call.tweet_text[1]) > 280
    /\ Len(call.text[1]) = 280

\* the text of the title before its first colon, or all of it
FirstClause(title) ==
    CHOOSE clause \in {SubSeq(title, 1, k) : k \in 0..Len(title)} :
        /\ \A i \in 1..Len(clause) : clause[i] # ":"
        /\ Len(clause) = Len(title) \/ title[Len(clause) + 1] = ":"

\* the part of the title the template shows
TemplateClause(title) ==
    IF FirstClause(title) # title
    THEN Strip(FirstClause(title))
    ELSE SubSeq(title, 1, IF Len(title) < 80 THEN Len(title) ELSE 80)

\* both calls of the language model raised
LlmFailed == call.fn = "article" /\ call.llm1 = LlmRaises /\ call.llm2 = LlmRaises

(***************************************************************************)
(* C14, as stated.  When the language model raises on every call,          *)
(* generate_content_aware_post returns the template text: a prefix of the  *)
(* category, a space, and the title's first clause up to the first colon   *)
(* or the first 80 characters of a title without a colon.                  *)
(***************************************************************************)
C14_TemplateText ==
    LlmFailed =>
        /\ call.post.kind = "returns"
        /\ \E p \in 1..Len(category_prefixes[call.category]) :
              call.post.text = category_prefixes[call.category][p] \o <<" ">>
                                  \o TemplateClause(call.title)

(***************************************************************************)
(* C14.  When the language model raises on every call,                     *)
(* generate_content_aware_post does not raise and returns the text of the  *)
(* template: a prefix of the category, a space, and the title's text       *)
(* before its first colon, trimmed, or the first 80 characters of a title  *)
(* without a colon; with "Trending <term> - " in front when there is a     *)
(* trend term; with a space and the first hashtag of the category behind   *)
(* when the text so far has fewer than 200 characters; and cut to 277      *)
(* characters and "..." when it has more than 280.                         *)
(***************************************************************************)
C14_TemplateOnLlmFailure ==
    LlmFailed =>
        /\ call.post.kind = "returns"
        /\ \E p \in 1..Len(category_prefixes[call.category]) :
              LET core == category_prefixes[call.category][p] \o <<" ">>
                              \o TemplateClause(call.title)
                  lead == IF call.trend_term = None THEN core
                          ELSE <<"T", "r", "e", "n", "d", "i", "n", "g", " ">> \o call.trend_term[1]
                                  \o <<" ", "-", " ">> \o core
                  full == IF Len(lead) < 200
                          THEN lead \o <<" ">> \o CATEGORY_HASHTAGS[call.category][1]
                          ELSE lead
              IN  call.post.text = IF Len(full) <= 280 THEN full
                                   ELSE SubSeq(full, 1, 277) \o <<".", ".", ".">>

\* category F1, title "Verstappen wins", no trend term: "F1 news: Verstappen wins #F1"
C14_Witness ==
    /\ LlmFailed
    /\ call.category = "F1"
    /\ call.title = <<"V", "e", "r", "s", "t", "a", "p", "p", "e", "n", " ", "w", "i", "n", "s">>
    /\ call.trend_term = None
    /\ call.post = [kind |-> "returns",
                    text |-> 
                        <<"F", "1", " ", "n", "e", "w", "s", ":", " ", "V", "e", "r", "s", "t", "a", "p", "p", "e", "n", " ", "w", "i", "n", "s", " ", "#", "F", "1">>]

(***************************************************************************)
(* C15.  is_fresh is true if and only if the article has no timestamp or   *)
(* the time since its timestamp is at most 24 hours (2880 units of 30      *)
(* seconds): true 23 hours after it, true exactly 24 hours after it, false *)
(* 25 hours after it, and true at any time for an article without a        *)
(* timestamp.                                                              *)
(***************************************************************************)
C15_Fresh ==
    call.fn = "is_fresh" =>
        /\ call.ret <=> (\/ call.published_parsed = None
                         \/ now - call.published_parsed[1] <= 2880)
        /\ call.published_parsed = None => call.ret
        /\ call.published_parsed # None =>
              /\ now - call.published_parsed[1] = 2760 => call.ret
              /\ now - call.published_parsed[1] = 2880 => call.ret
              /\ now - call.published_parsed[1] = 3000 => ~call.ret

\* an article published exactly 24 hours ago is fresh
C15_Witness ==
    /\ call.fn = "is_fresh"
    /\ call.published_parsed # None
    /\ now - call.published_parsed[1] = 2880
    /\ call.ret

(***************************************************************************)
(* C20.  When the trend lookup raises, or no trend matches a keyword,      *)
(* detect_category_from_trends returns the category it drew at its start,  *)
(* with no trend term.                                                     *)
(***************************************************************************)
C20_ReturnsDrawnCategory ==
    (/\ call.fn = "detect_category_from_trends"
     /\ \/ call.lookup.kind = "raises"
        \/ FirstTrendMatch(call.lookup.trends) = None)
      => call.ret = [category |-> call.category, trend_term |-> None]

(***************************************************************************)
(* C21.  When the gpt-4o-mini call raises, generate_content_aware_post     *)
(* returns the text of the template, generate_fallback_post, for one of    *)
(* the prefixes of the category: never the output of another call of the   *)
(* language model.                                                         *)
(***************************************************************************)
C21_TwoTiers ==
    (call.fn = "article" /\ call.llm1 = LlmRaises) =>
        /\ call.post.kind = "returns"
        /\ \E p \in 1..Len(category_prefixes[call.category]) :
              call.post.text =
                  generate_fallback_post(call.title, call.category, call.trend_term,
                                         category_prefixes[call.category][p])

(***************************************************************************)
(* C22.  last_post_time is None when the process starts.  A create_tweet   *)
(* call that returns sets it to the time of that call, for an article and  *)
(* for a fallback tweet alike; no other step changes it: not a post_tweet  *)
(* call that returns False because the gate is closed, the tweet is a      *)
(* duplicate or the attempts are used up, and not any other step of a run. *)
(***************************************************************************)
C22_OnlyPublishWrites ==
    /\ last_post_time = <<>>
    /\ [][LET published == pc = "create_tweet" /\ last_outcome' = Success
          IN  /\ published => last_post_time' = <<now>> /\ now' = now
              /\ ~published => UNCHANGED last_post_time]_vars

\* a fallback tweet published in the second run, after create_tweet calls that raised
C22_Witness ==
    /\ pc = "post_return"
    /\ pt_ctx = "fallback"
    /\ pt_result
    /\ runs = 2
    /\ errors > 0
    /\ now > 0
    /\ last_post_time = <<now>>

(***************************************************************************)
(* C23.  When get_articles_for_category has returned, target_articles is   *)
(* the list of the fresh articles among the collected ones, in the order   *)
(* they were collected, if one of them is fresh, and the whole collected   *)
(* list if none is.  The loop of post_dynamic_update leaves both lists as  *)
(* they are and hands post_tweet only articles of target_articles: with a  *)
(* fresh article among the collected ones, the first article handed to     *)
(* post_tweet is fresh, and a stale one is not tried even when every fresh *)
(* one is skipped.                                                         *)
(***************************************************************************)
C23_FreshPreferred ==
    /\ [][/\ (pc = "collect" /\ pc' = "select") =>
              LET a == articles'
                  t == target_articles'
                  F == {i \in 1..Len(a) : is_fresh(Article(a[i]))}
              IN  IF F = {} THEN t = a
                  ELSE /\ Len(t) = Cardinality(F)
                       /\ \E f \in [1..Len(t) -> F] :
                             /\ \A i, j \in 1..Len(t) : i < j => f[i] < f[j]
                             /\ \A i \in 1..Len(t) : t[i] = a[f[i]]
          /\ (/\ pc \in {"select", "create_tweet", "post_return"}
              /\ pc' \in {"select", "create_tweet", "post_return"}) =>
                 UNCHANGED <<articles, target_articles>>]_vars
    /\ [](ArticleSubmitted => idx \in 1..Len(target_articles))
    /\ []((/\ pc = "create_tweet"
           /\ pt_ctx = "article"
           /\ submitted = 1
           /\ calls = 0
           /\ \E i \in 1..Len(articles) : is_fresh(Article(articles[i])))
             => is_fresh(ChosenArticle))

\* the fallback tweet is reached with a stale article collected that was never
\* posted: the fresh ones were skipped and the stale one was not a target
C23_Witness ==
    /\ pc = "create_tweet"
    /\ pt_ctx = "fallback"
    /\ submitted = 0
    /\ target_articles # <<>>
    /\ Len(target_articles) < Len(articles)
    /\ \E i \in 1..Len(articles) :
          /\ ~is_fresh(Article(articles[i]))
          /\ ~AlreadyPosted(Article(articles[i]))

(***************************************************************************)
(* C24.  When a trend matches, detect_category_from_trends returns the     *)
(* first pair in the order of its two loops: the trends in the order       *)
(* get_place_trends returned them and, for each trend, the categories in   *)
(* the order of TREND_KEYWORDS.  A pair matches when a keyword of the      *)
(* category, in lower case, is part of the trend in lower case.            *)
(***************************************************************************)
C24_FirstMatchInScanOrder ==
    (call.fn = "detect_category_from_trends" /\ call.lookup.kind = "returns") =>
        LET trends == call.lookup.trends
            Match(i, j) ==
                \E k \in 1..Len(TREND_KEYWORDS[CategoryOrder[j]]) :
                    Contains(Lower(trends[i]), Lower(TREND_KEYWORDS[CategoryOrder[j]][k]))
            Pairs == (1..Len(trends)) \X (1..Len(CategoryOrder))
            Before(g, h) == g[1] < h[1] \/ (g[1] = h[1] /\ g[2] < h[2])
        IN  (\E h \in Pairs : Match(h[1], h[2])) =>
                \E h \in Pairs :
                    /\ Match(h[1], h[2])
                    /\ \A g \in Pairs : Before(g, h) => ~Match(g[1], g[2])
                    /\ call.ret = [category |-> CategoryOrder[h[2]],
                                   trend_term |-> Some(trends[h[1]])]

\* the first trend matches F1 and the second one Arsenal, an earlier category: the
\* first trend wins; a trend that matches Arsenal and EPL gives Arsenal
C24_Witness ==
    /\ call.fn = "detect_category_from_trends"
    /\ call.lookup.kind = "returns"
    /\ \/ /\ Len(call.lookup.trends) = 2
          /\ TrendMatches(call.lookup.trends[2], "Arsenal")
          /\ call.ret.category = "F1"
          /\ call.ret.trend_term = Some(call.lookup.trends[1])
       \/ /\ Len(call.lookup.trends) = 2
          /\ TrendMatches(call.lookup.trends[1], "EPL")
          /\ call.ret.category = "Arsenal"
          /\ call.ret.trend_term = Some(call.lookup.trends[1])

\* the sequences of at most two different hashtags of a pool
TagChoices(pool) ==
    {<<>>} \cup {<<pool[i]>> : i \in 1..Len(pool)}
           \cup {<<pool[h[1]], pool[h[2]]>> :
                    h \in {g \in (1..Len(pool)) \X (1..Len(pool)) : g[1] # g[2]}}

\* the text with the hashtags of sel appended, each after a space
WithTags(text, sel) ==
    IF sel = <<>> THEN text
    ELSE IF Len(sel) = 1 THEN text \o <<" ">> \o sel[1]
    ELSE text \o <<" ">> \o sel[1] \o <<" ">> \o sel[2]

InConfiguration(c) == \A m \in DOMAIN ConfigurationKeys : c \in ConfigurationKeys[m]

(***************************************************************************)
(* C26.  The category detect_category_from_trends returns, matched to a    *)
(* trend or drawn at random, and every backup category run_dynamic_job     *)
(* draws is a key of RSS_FEEDS, of CATEGORY_HASHTAGS, of TREND_KEYWORDS    *)
(* and of FALLBACK_KEYWORDS.                                               *)
(***************************************************************************)
C26_CategoriesConfigured ==
    /\ call.fn = "detect_category_from_trends" => InConfiguration(call.ret.category)
    /\ call.fn = "backup_categories" =>
          \A i \in 1..Len(call.ret) : InConfiguration(call.ret[i])

\* a trend gives a category other than the one drawn; two backup categories
C26_Witness ==
    \/ /\ call.fn = "detect_category_from_trends"
       /\ call.ret.trend_term # None
       /\ call.ret.category = "Kenyan Politics"
       /\ call.category = "Arsenal"
    \/ /\ call.fn = "backup_categories"
       /\ call.category = "Arsenal"
       /\ Len(call.ret) = 2

\* less than 120 minutes have passed since the last publish, and nothing was
\* published in this run: the gate has been closed since the run started
GateClosedAllRun ==
    /\ pc # "idle"
    /\ run_publishes = 0
    /\ last_post_time # <<>>
    /\ now - last_post_time[1] < POST_INTERVAL

(***************************************************************************)
(* C27.  A run during which the gate stays closed calls create_tweet for   *)
(* no category, primary or backup: each of its steps leaves                *)
(* posted_links.txt, posted_content_hashes.txt and last_post_time as they  *)
(* are, no post_tweet call of it returns True, and the gate is still       *)
(* closed after the step.                                                  *)
(***************************************************************************)
C27_ClosedGateRun ==
    [][GateClosedAllRun =>
          /\ pc' # "create_tweet"
          /\ calls' = 0
          /\ pt_result' = FALSE
          /\ UNCHANGED <<posted_log, hash_log, rec_urls, rec_titles, last_post_time,
                         tweeted, recorded, errors>>
          /\ pc' # "idle" => GateClosedAllRun']_vars

\* the last backup category of a run at a closed gate: an article was handed to
\* post_tweet and refused, and so is the fallback tweet
C27_Witness ==
    /\ GateClosedAllRun
    /\ Len(attempted) = 3
    /\ submitted > 0
    /\ pc = "post_return"
    /\ pt_ctx = "fallback"
    /\ ~pt_result

\* post_tweet calls of the current post_dynamic_update call
Invocations ==
    submitted + (IF pt_ctx = "fallback" /\ pc \in {"create_tweet", "post_return"}
                 THEN 1 ELSE 0)

(***************************************************************************)
(* C28.  Every run of run_dynamic_job ends, whatever the feeds return and  *)
(* however create_tweet fails.  A run calls post_dynamic_update for at     *)
(* most 3 categories; a post_dynamic_update call calls post_tweet at most  *)
(* once for each candidate and once more for the fallback tweet; a         *)
(* post_tweet call calls create_tweet at most 3 times; and                 *)
(* get_articles_for_category goes through the feeds of the category at     *)
(* most once and once more for each of the 3 fallback keywords, fetching a *)
(* feed once in each pass.  Every step of a run takes it to another        *)
(* statement or another pass of a loop.                                    *)
(***************************************************************************)
C28_RunTerminates ==
    /\ [](/\ Len(attempted) <= 3
          /\ Invocations <= Len(target_articles) + 1
          /\ calls <= 3
          /\ c_pass \in 0..3
          /\ \A i \in 1..Len(fetch_log) :
                /\ fetch_log[i].pass \in 0..3
                /\ fetch_log[i].feed \in 1..NumFeeds(category)
                /\ \A j \in 1..Len(fetch_log) :
                      i < j => \/ fetch_log[i].pass < fetch_log[j].pass
                               \/ /\ fetch_log[i].pass = fetch_log[j].pass
                                  /\ fetch_log[i].feed < fetch_log[j].feed)
    /\ [][pc # "idle" => position' # position]_vars
    /\ (pc # "idle") ~> (pc = "idle")

\* both runs have reached their end, the publisher having failed as often as it may
C28_Witness ==
    /\ pc = "idle"
    /\ runs = MaxRuns
    /\ job_outcome = "completed"
    /\ errors = MaxErrors

(***************************************************************************)
(* C29.  The text post_tweet hands to create_tweet for an article ends     *)
(* with the whole URL of the article: validate_tweet_length, applied in    *)
(* post_tweet to the composed text with "\n\n" and the URL appended, cuts  *)
(* nothing off the URL.                                                    *)
(***************************************************************************)
C29_UrlIntact ==
    (call.fn = "article" /\ call.text # None) =>
        LET text == call.text[1]
            url == call.url
        IN  /\ Len(text) >= Len(url)
            /\ SubSeq(text, Len(text) - Len(url) + 1, Len(text)) = url

=============================================================================
